---- MODULE Spec2Model ----
(***************************************************************************)
(* A model of iterm-mcp's process tracking (src/src/ProcessTracker.ts) and *)
(* of the wait-for-idle loop of src/src/CommandExecutor.ts.                *)
(*                                                                         *)
(* Number representation.  JavaScript numbers are modelled by integers:    *)
(*   - a CPU percentage is held in tenths of a percent (ps prints %cpu     *)
(*     with one decimal), so 0.1% is 1, 1% is 10 and 12.5% is 125;         *)
(*   - a score is held in hundredths of a point (cpuPercent / 10 of a      *)
(*     value in tenths of a percent is a number of hundredths);            *)
(*   - a memory amount in MB is the fraction num / den, kept as the        *)
(*     record [num, den]: the division by 1024 is never rounded.           *)
(* Strings that the code takes apart (commands, the rss column) are        *)
(* sequences of one-character strings.                                     *)
(***************************************************************************)
EXTENDS Integers, Sequences, FiniteSets, TLC

VARIABLES
  ttyExists,           \* existsSync(ttyPath) as seen by the last getActiveProcess call
  processes,           \* the snapshot getProcessesForTTY returned to that call
  fgQuery,             \* what the foreground-group OS query did for that call
  applied,             \* which ProcessTracker function was applied last
  outcome,             \* how the last getActiveProcess call completed
  walkRoot,            \* index in processes of the root of the last descendant walk
  walk,                \* how the last getAllDescendants call completed
  pc,                  \* position of the isWaitingForUserInput call
  fd,                  \* the tty file descriptor: "undefined", "open", "closed", "bad close"
  belowThresholdTime,  \* the accumulator of isWaitingForUserInput
  returned,            \* what isWaitingForUserInput resolved to
  history,             \* one entry per poll made by the call, oldest first
  psQuery,             \* what the ps query of getProcessesForTTY did
  result,              \* what the function applied last returned
  calls,               \* the locals of two concurrent isWaitingForUserInput calls
  execPc,              \* position of the executeCommand call
  events,              \* what the executeCommand call has done so far, in order
  input,               \* the arguments of the function applied last
  manager              \* one TerminalManager, the iTerm windows and its getTerminal calls

vars == << ttyExists, processes, fgQuery, applied, outcome, walkRoot, walk,
           pc, fd, belowThresholdTime, returned, history,
           psQuery, result, calls, execPc, events, input, manager >>

trackerVars == << ttyExists, processes, fgQuery, applied, outcome, walkRoot, walk >>

detectorVars == << pc, fd, belowThresholdTime, returned, history >>

callerVars == << execPc, events >>

\* The variables of the server's other functions.
serverVars == << input, manager >>

\* The variables that no step of a single isWaitingForUserInput call and no
\* application of getActiveProcess or getAllDescendants touches.
otherVars == << psQuery, result, calls, execPc, events, input, manager >>

(***************************************************************************)
(* Bounds of the model.                                                    *)
(***************************************************************************)
\* The longest snapshot (rows of ps output) drawn for a tracker call.
MaxProcs == 3

\* The number of polls after which the model stops following a detector call.
MaxPolls == 6

\* The largest number of rows below the header in the ps output drawn.
MaxRows == 3

\* The number of polls after which the model stops following each of two
\* concurrent detector calls.
MaxPollsEach == 3

\* The longest candidate list drawn for the interest scorer.
MaxCands == 2

\* The call depth at which the recursion of getAllDescendants.collect ends in a
\* RangeError (the engine's stack limit).  It exceeds the depth of every walk
\* over an acyclic snapshot, which is at most the number of processes.
MaxStack == MaxProcs + 2

(***************************************************************************)
(* Strings.                                                                *)
(***************************************************************************)
Whitespace == {" ", "\t", "\n"}

\* The names of ProcessTracker.shellNames.
shellNames ==
  { <<"b","a","s","h">>, <<"z","s","h">>, <<"s","h">>, <<"f","i","s","h">>,
    <<"c","s","h">>, <<"t","c","s","h">> }

\* The names of ProcessTracker.replNames.
replNames ==
  { <<"i","r","b">>, <<"p","r","y">>, <<"r","a","i","l","s">>, <<"n","o","d","e">>,
    <<"p","y","t","h","o","n">>, <<"i","p","y","t","h","o","n">>,
    <<"s","c","a","l","a">>, <<"g","h","c","i">>, <<"i","e","x">>,
    <<"l","e","i","n">>, <<"c","l","j">>, <<"j","u","l","i","a">>, <<"R">>,
    <<"p","h","p">>, <<"l","u","a">> }

\* The names calculateProcessScore treats as package managers.
packageManagerNames ==
  { <<"b","r","e","w">>, <<"n","p","m">>, <<"y","a","r","n">> }

\* command.split(/\s+/)[0]: the characters before the first whitespace.
RECURSIVE FirstToken(_)
FirstToken(s) ==
  IF s = <<>> \/ Head(s) \in Whitespace THEN <<>>
  ELSE <<Head(s)>> \o FirstToken(Tail(s))

\* s without its trailing "/" characters.
RECURSIVE StripTrailingSlashes(_)
StripTrailingSlashes(s) ==
  IF s # <<>> /\ s[Len(s)] = "/" THEN StripTrailingSlashes(SubSeq(s, 1, Len(s) - 1))
  ELSE s

\* The characters of s after its last "/".
RECURSIVE AfterLastSlash(_)
AfterLastSlash(s) ==
  IF s = <<>> \/ s[Len(s)] = "/" THEN <<>>
  ELSE AfterLastSlash(SubSeq(s, 1, Len(s) - 1)) \o <<s[Len(s)]>>

\* path.basename(p).
basename(p) == AfterLastSlash(StripTrailingSlashes(p))

\* ProcessTracker.getProcessName.
getProcessName(command) == basename(FirstToken(command))

DigitValue(c) ==
  CASE c = "0" -> 0 [] c = "1" -> 1 [] c = "2" -> 2 [] c = "3" -> 3 [] c = "4" -> 4
    [] c = "5" -> 5 [] c = "6" -> 6 [] c = "7" -> 7 [] c = "8" -> 8 [] c = "9" -> 9

\* parseInt(s, 10) of a string of decimal digits (the rss column of ps).
RECURSIVE parseInt(_)
parseInt(s) ==
  IF s = <<>> THEN 0
  ELSE 10 * parseInt(SubSeq(s, 1, Len(s) - 1)) + DigitValue(s[Len(s)])

\* String.prototype.trim.
RECURSIVE trim(_)
trim(s) ==
  IF s # <<>> /\ Head(s) \in Whitespace THEN trim(Tail(s))
  ELSE IF s # <<>> /\ s[Len(s)] \in Whitespace THEN trim(SubSeq(s, 1, Len(s) - 1))
  ELSE s

\* The letters String.prototype.toLowerCase and toUpperCase map to each other.
UpperLetters ==
  << "A","B","C","D","E","F","G","H","I","J","K","L","M",
     "N","O","P","Q","R","S","T","U","V","W","X","Y","Z" >>

LowerLetters ==
  << "a","b","c","d","e","f","g","h","i","j","k","l","m",
     "n","o","p","q","r","s","t","u","v","w","x","y","z" >>

Digits == { "0","1","2","3","4","5","6","7","8","9" }

\* The characters that \w matches.
WordChars ==
  { UpperLetters[k] : k \in 1..26 } \cup { LowerLetters[k] : k \in 1..26 }
    \cup Digits \cup { "_" }

toLowerChar(c) ==
  IF \E k \in 1..26 : UpperLetters[k] = c
  THEN LowerLetters[CHOOSE k \in 1..26 : UpperLetters[k] = c] ELSE c

\* The two characters outside a-z that toUpperCase maps into A-Z are written
\* by their code points: dotless i (U+0131) and long s (U+017F).
toUpperChar(c) ==
  IF \E k \in 1..26 : LowerLetters[k] = c
  THEN UpperLetters[CHOOSE k \in 1..26 : LowerLetters[k] = c]
  ELSE IF c = "U+0131" THEN "I"
  ELSE IF c = "U+017F" THEN "S"
  ELSE c

\* String.prototype.toLowerCase and toUpperCase.
toLowerCase(s) == [ i \in 1..Len(s) |-> toLowerChar(s[i]) ]

toUpperCase(s) == [ i \in 1..Len(s) |-> toUpperChar(s[i]) ]

\* t occurs in s at index i.
StartsWithAt(s, i, t) ==
  /\ i + Len(t) - 1 <= Len(s)
  /\ SubSeq(s, i, i + Len(t) - 1) = t

\* String.prototype.includes.
includes(s, t) == \E i \in 1..(Len(s) + 1) : StartsWithAt(s, i, t)

\* The longest run of characters of s from index i on that are in chars (\w+ and
\* [^/]+ are greedy).
RECURSIVE RunOf(_, _, _)
RunOf(s, i, chars) ==
  IF i <= Len(s) /\ s[i] \in chars THEN <<s[i]>> \o RunOf(s, i + 1, chars) ELSE <<>>

\* The characters of s that are not "/".
NonSlashChars(s) == { s[i] : i \in 1..Len(s) } \ { "/" }

NoMatch == [ matched |-> FALSE ]

\* s.match(/RAILS_ENV=(\w+)/): the leftmost match and its group 1.
matchRailsEnv(s) ==
  LET pat == <<"R","A","I","L","S","_","E","N","V","=">>
      starts == { i \in 1..Len(s) : /\ StartsWithAt(s, i, pat)
                                    /\ RunOf(s, i + Len(pat), WordChars) # <<>> }
  IN  IF starts = {} THEN NoMatch
      ELSE LET i == CHOOSE i \in starts : \A j \in starts : i <= j
           IN  [ matched |-> TRUE, group1 |-> RunOf(s, i + Len(pat), WordChars) ]

\* s.match(/\/([^/]+)\/config\/environment/): the leftmost match and its group 1.
matchConfigEnvironment(s) ==
  LET tail == <<"/","c","o","n","f","i","g","/","e","n","v","i","r","o","n","m","e","n","t">>
      starts == { i \in 1..Len(s) :
                    /\ s[i] = "/"
                    /\ RunOf(s, i + 1, NonSlashChars(s)) # <<>>
                    /\ StartsWithAt(s, i + 1 + Len(RunOf(s, i + 1, NonSlashChars(s))),
                                    tail) }
  IN  IF starts = {} THEN NoMatch
      ELSE LET i == CHOOSE i \in starts : \A j \in starts : i <= j
           IN  [ matched |-> TRUE, group1 |-> RunOf(s, i + 1, NonSlashChars(s)) ]

\* s.split('\n'): the pieces of s between its line feeds (one piece if none).
RECURSIVE splitLines(_)
splitLines(s) ==
  LET first == RunOf(s, 1, { s[i] : i \in 1..Len(s) } \ { "\n" })
  IN  IF Len(first) = Len(s) THEN << first >>
      ELSE << first >> \o splitLines(SubSeq(s, Len(first) + 2, Len(s)))

\* s.split(/\s+/): the pieces of s between its runs of whitespace.
RECURSIVE splitWhitespace(_)
splitWhitespace(s) ==
  LET first == RunOf(s, 1, { s[i] : i \in 1..Len(s) } \ Whitespace)
      gap == RunOf(s, Len(first) + 1, Whitespace)
  IN  IF Len(first) = Len(s) THEN << first >>
      ELSE << first >> \o splitWhitespace(SubSeq(s, Len(first) + Len(gap) + 1, Len(s)))

\* parseFloat of a %cpu column, in tenths of a percent: the digits before the
\* point and the first digit after it (ps prints one); NaN without a leading
\* digit.
parseFloat(s) ==
  LET whole == RunOf(s, 1, Digits)
      fraction == IF Len(whole) + 1 <= Len(s) /\ s[Len(whole) + 1] = "."
                  THEN RunOf(s, Len(whole) + 2, Digits) ELSE <<>>
  IN  IF whole = <<>> THEN "NaN"
      ELSE 10 * parseInt(whole) + (IF fraction = <<>> THEN 0 ELSE DigitValue(fraction[1]))

\* const maxChainLength = 10.
maxChainLength == 10

\* parts.join(sep).
RECURSIVE joinWith(_, _)
joinWith(parts, sep) ==
  IF parts = <<>> THEN <<>>
  ELSE IF Len(parts) = 1 THEN parts[1]
  ELSE parts[1] \o sep \o joinWith(Tail(parts), sep)

\* Array.prototype.reverse.
reverse(a) == [ i \in 1..Len(a) |-> a[Len(a) + 1 - i] ]

\* s.split(sep)[1] for an s that includes sep: what stands between the first
\* occurrence of sep and the next one (or the end of s).
secondPiece(s, sep) ==
  LET first == CHOOSE i \in 1..Len(s) :
                 /\ StartsWithAt(s, i, sep)
                 /\ \A j \in 1..(i - 1) : ~StartsWithAt(s, j, sep)
      rest == SubSeq(s, first + Len(sep), Len(s))
      nexts == { i \in 1..Len(rest) : StartsWithAt(rest, i, sep) }
  IN  IF nexts = {} THEN rest
      ELSE SubSeq(rest, 1, (CHOOSE i \in nexts : \A j \in nexts : i <= j) - 1)

(***************************************************************************)
(* Fractions, for amounts of memory in MB.                                 *)
(***************************************************************************)
Frac(n, d) == [num |-> n, den |-> d]

FracAdd(a, b) ==
  IF a.den = b.den THEN Frac(a.num + b.num, a.den)
  ELSE Frac(a.num * b.den + b.num * a.den, a.den * b.den)

FracEq(a, b) == a.num * b.den = b.num * a.den

FracLeq(a, b) == a.num * b.den <= b.num * a.den

\* a > n for an integer n.
FracGtInt(a, n) == a.num > n * a.den

(***************************************************************************)
(* Process records (interface ProcessInfo) and the snapshots drawn.        *)
(***************************************************************************)
\* What a row of the ps output says besides pid and ppid.  An idle shell over
\* 5 MB; a REPL at 0.5% CPU; a busy job at 5% with exactly 5 MB (5120 KB); and a
\* process at exactly 0.1% and 5 MB, the thresholds of the breakdown.
ShellIdle ==
  [ pgid |-> <<"1">>, state |-> "S", cpuPercent |-> 0, memory |-> <<"5","1","2","1">>,
    command |-> <<"/","b","i","n","/","b","a","s","h">> ]

ReplLow ==
  [ pgid |-> <<"2">>, state |-> "S", cpuPercent |-> 5,
    memory |-> <<"2","0","4","8","0">>,
    command |-> <<"p","y","t","h","o","n"," ","x",".","p","y">> ]

JobBusy ==
  [ pgid |-> <<"2">>, state |-> "R", cpuPercent |-> 50, memory |-> <<"5","1","2","0">>,
    command |-> <<"n","p","m"," ","i">> ]

AtThresholds ==
  [ pgid |-> <<"2">>, state |-> "S", cpuPercent |-> 1, memory |-> <<"5","1","2","0">>,
    command |-> <<"s","l","e","e","p"," ","9">> ]

\* The rows drawn for the snapshots the tracker's functions are applied to.
Profiles == { ShellIdle, JobBusy, AtThresholds }

\* The rows drawn for the snapshots a detector call polls.
PollProfiles == { ShellIdle, ReplLow, JobBusy }

\* The i-th row of a snapshot: pids are the row numbers, so they are unique; a ppid
\* of 0 names a process that is not in the snapshot.
ProcessInfo(i, ppid, profile) ==
  [ pid |-> i, ppid |-> ppid, pgid |-> profile.pgid, state |-> profile.state,
    cpuPercent |-> profile.cpuPercent, memory |-> profile.memory,
    command |-> profile.command ]

\* The choices for the rows of a snapshot of n rows drawn from profiles: every
\* parent link, self links, cycles and dangling links included.
Rows(n, profiles) == [ 1..n -> (0..n) \X profiles ]

\* The snapshot of n rows that rows chooses.
Snapshot(n, rows) == [ i \in 1..n |-> ProcessInfo(i, rows[i][1], rows[i][2]) ]

\* What the foreground-group query (ps -o pgid= | head -n1) can do: fail, or
\* print nothing, or print a group id padded with blanks.
FgQueries ==
  { [ failed |-> TRUE, stdout |-> <<>> ],
    [ failed |-> FALSE, stdout |-> <<>> ],
    [ failed |-> FALSE, stdout |-> <<" ","1","\n">> ],
    [ failed |-> FALSE, stdout |-> <<" ","2","\n">> ] }

(***************************************************************************)
(* ProcessTracker.                                                         *)
(***************************************************************************)
\* The record getProcessesForTTY builds from the parts of a row.
parseRow(parts) ==
  [ pid |-> parts[1], ppid |-> parts[2], pgid |-> parts[3], sess |-> parts[4],
    state |-> parts[5], cpuPercent |-> parseFloat(parts[6]), memory |-> parts[7],
    time |-> parts[8], command |-> joinWith(SubSeq(parts, 9, Len(parts)), <<" ">>),
    children |-> <<>> ]

\* The first loop of getProcessesForTTY over lines from index i on: a record for
\* each line of at least 9 parts.
RECURSIVE parseLines(_, _)
parseLines(lines, i) ==
  IF i > Len(lines) THEN <<>>
  ELSE LET parts == splitWhitespace(trim(lines[i]))
       IN  (IF Len(parts) >= 9 THEN << parseRow(parts) >> ELSE <<>>)
             \o parseLines(lines, i + 1)

\* processByPid[pid] after the first loop: the last record pushed with that pid,
\* as its index in records; 0 for undefined.
processByPid(records, pid) ==
  LET having == { j \in 1..Len(records) : records[j].pid = pid }
  IN  IF having = {} THEN 0 ELSE CHOOSE j \in having : \A k \in having : k <= j

\* A link step that pushes nothing.
childrenOfUnlinked(records, j) == <<>>

\* parent.children of the record at index j after the second loop: the records
\* whose ppid looks up to it, in the order of the list (as indices).
childrenOf(records, j) ==
  SelectSeq([ i \in 1..Len(records) |-> i ],
            LAMBDA i : processByPid(records, records[i].ppid) = j)

\* A parse that takes the header line for a row.
getProcessesForTTYWithHeader(q) ==
  IF q.failed THEN <<>>
  ELSE LET lines == splitLines(trim(q.stdout))
       IN  IF Len(lines) < 2 THEN <<>>
           ELSE LET records == parseLines(lines, 1)
                IN  [ j \in 1..Len(records) |->
                        [ records[j] EXCEPT !.children = childrenOf(records, j) ] ]

\* getProcessesForTTY, for what the ps query did: the catch clause returns the
\* empty list when it failed.
getProcessesForTTY(q) ==
  IF q.failed THEN <<>>
  ELSE LET lines == splitLines(trim(q.stdout))
       IN  IF Len(lines) < 2 THEN <<>>
           ELSE LET records == parseLines(lines, 2)
                IN  [ j \in 1..Len(records) |->
                        [ records[j] EXCEPT !.children = childrenOf(records, j) ] ]

\* getForegroundProcessGroup: null when the query fails, else the trimmed output.
getForegroundProcessGroup(q) ==
  IF q.failed THEN [ null |-> TRUE ]
  ELSE [ null |-> FALSE, value |-> trim(q.stdout) ]

\* A score whose package-manager bonus does not look at the CPU usage.
calculateProcessScoreBonusAtZero(process) ==
  LET cmdName == getProcessName(process.command)
      stateScore == IF process.state = "R" THEN 200
                    ELSE IF process.state = "S" THEN 100 ELSE 0
      cpuScore == IF process.cpuPercent < 500 THEN process.cpuPercent ELSE 500
      shellScore == IF cmdName \in shellNames THEN -100 ELSE 0
      replScore == IF cmdName \in replNames THEN 300 ELSE 0
      packageScore == IF cmdName \in packageManagerNames THEN 200 ELSE 0
  IN  stateScore + cpuScore + shellScore + replScore + packageScore

\* calculateProcessScore, in hundredths of a point.
calculateProcessScore(process) ==
  LET cmdName == getProcessName(process.command)
      stateScore == IF process.state = "R" THEN 200
                    ELSE IF process.state = "S" THEN 100 ELSE 0
      cpuScore == IF process.cpuPercent < 500 THEN process.cpuPercent ELSE 500
      shellScore == IF cmdName \in shellNames THEN -100 ELSE 0
      replScore == IF cmdName \in replNames THEN 300 ELSE 0
      packageScore == IF cmdName \in packageManagerNames /\ process.cpuPercent > 0
                      THEN 200 ELSE 0
  IN  stateScore + cpuScore + shellScore + replScore + packageScore

\* A reduce that lets a later element with an equal score take over.
RECURSIVE reduceBestLast(_, _, _)
reduceBestLast(procs, i, best) ==
  IF i > Len(procs) THEN best
  ELSE LET current == procs[i]
       IN  reduceBestLast(procs, i + 1,
             IF calculateProcessScore(current) >= calculateProcessScore(best)
             THEN current ELSE best)

\* The reduce of findMostInterestingProcess over the elements from index i on.
RECURSIVE reduceBest(_, _, _)
reduceBest(procs, i, best) ==
  IF i > Len(procs) THEN best
  ELSE reduceBest(procs, i + 1,
         IF calculateProcessScore(procs[i]) > calculateProcessScore(best)
         THEN procs[i] ELSE best)

\* findMostInterestingProcess (of a non-empty list).
findMostInterestingProcess(procs) == reduceBest(procs, 1, procs[1])

\* An optional field of a result: absent (undefined), or present with a value.
Absent == [ present |-> FALSE ]

Present(v) == [ present |-> TRUE, value |-> v ]

\* The names detectEnvironment labels as package managers.
labelledPackageManagers ==
  { <<"b","r","e","w">>, <<"n","p","m">>, <<"y","a","r","n">>, <<"p","i","p">> }

\* The condition of the Rails rule of detectEnvironment, for the lower-cased
\* command cmd and the lower-cased short name.
isRailsConsole(cmd, name) ==
  \/ includes(cmd, <<"r","a","i","l","s"," ","c","o","n","s","o","l","e">>)
  \/ (name = <<"r","u","b","y">>
      /\ includes(cmd, <<"r","a","i","l","s"," ","s","e","r","v","e","r">>))

\* What the Rails rule returns.  The environment name is matched in cmd, the
\* lower-cased command; the application name in the command as it is.
railsConsoleResult(process, cmd) ==
  LET envMatch == matchRailsEnv(cmd)
      appNameMatch == matchConfigEnvironment(process.command)
      railsEnv == IF envMatch.matched THEN envMatch.group1
                  ELSE <<"d","e","v","e","l","o","p","m","e","n","t">>
      appName == IF appNameMatch.matched THEN appNameMatch.group1
                 ELSE <<"R","a","i","l","s"," ","A","p","p">>
  IN  [ environment |-> Present(<<"R","a","i","l","s"," ","C","o","n","s","o","l","e">>),
        applicationContext |-> Present(appName \o <<" ","(">> \o railsEnv \o <<")">>) ]

\* replMap[name] || `${name.toUpperCase()} REPL`.
replLabel(name) ==
  CASE name = <<"i","r","b">> -> <<"R","u","b","y"," ","I","R","B">>
    [] name = <<"p","r","y">> -> <<"P","r","y"," ","C","o","n","s","o","l","e">>
    [] name = <<"n","o","d","e">> -> <<"N","o","d","e",".","j","s"," ","R","E","P","L">>
    [] name = <<"p","y","t","h","o","n">> -> <<"P","y","t","h","o","n"," ","R","E","P","L">>
    [] name = <<"i","p","y","t","h","o","n">> -> <<"I","P","y","t","h","o","n"," ","C","o","n","s","o","l","e">>
    [] OTHER -> toUpperCase(name) \o <<" ","R","E","P","L">>

\* `${name.charAt(0).toUpperCase() + name.slice(1)} Package Manager`.
packageManagerLabel(name) ==
  <<toUpperChar(Head(name))>> \o Tail(name) \o <<" ","P","a","c","k","a","g","e"," ","M","a","n","a","g","e","r">>

\* A detectEnvironment that checks the REPL rule before the Rails rule.
detectEnvironmentReplFirst(process, allProcesses) ==
  LET cmd == toLowerCase(process.command)
      name == toLowerCase(getProcessName(process.command))
  IN  IF name \in replNames
      THEN [ environment |-> Present(replLabel(name)), applicationContext |-> Absent ]
      ELSE IF isRailsConsole(cmd, name) THEN railsConsoleResult(process, cmd)
      ELSE IF name \in labelledPackageManagers
      THEN [ environment |-> Present(packageManagerLabel(name)),
             applicationContext |-> Absent ]
      ELSE [ environment |-> Absent, applicationContext |-> Absent ]

\* detectEnvironment.  (allProcesses is not read.)
detectEnvironment(process, allProcesses) ==
  LET cmd == toLowerCase(process.command)
      name == toLowerCase(getProcessName(process.command))
  IN  IF isRailsConsole(cmd, name) THEN railsConsoleResult(process, cmd)
      ELSE IF name \in replNames
      THEN [ environment |-> Present(replLabel(name)), applicationContext |-> Absent ]
      ELSE IF name \in labelledPackageManagers
      THEN [ environment |-> Present(packageManagerLabel(name)),
             applicationContext |-> Absent ]
      ELSE [ environment |-> Absent, applicationContext |-> Absent ]

\* What buildCommandChain pushes for the process current: its name, or more for
\* a Rails console and for brew install.
chainEntry(current) ==
  LET name == getProcessName(current.command)
  IN  IF name = <<"r","u","b","y">>
         /\ includes(current.command, <<"r","a","i","l","s"," ","c","o","n","s","o","l","e">>)
      THEN <<"r","a","i","l","s"," ","c","o","n","s","o","l","e">>
      ELSE IF name = <<"b","r","e","w">>
              /\ includes(current.command, <<"i","n","s","t","a","l","l">>)
      THEN <<"b","r","e","w"," ","i","n","s","t","a","l","l"," ">>
             \o trim(secondPiece(current.command, <<"i","n","s","t","a","l","l">>))
      ELSE name

Undefined == [ defined |-> FALSE ]

\* processByPid[pid] in buildCommandChain: the last process of allProcesses with
\* that pid, or undefined.
lookupByPid(allProcesses, pid) ==
  LET j == processByPid(allProcesses, pid)
  IN  IF j = 0 THEN Undefined ELSE [ defined |-> TRUE, process |-> allProcesses[j] ]

\* The while loop of buildCommandChain, from current and chain on.
RECURSIVE chainLoop(_, _, _)
chainLoop(current, allProcesses, chain) ==
  IF current.defined /\ Len(chain) < maxChainLength
  THEN chainLoop(lookupByPid(allProcesses, current.process.ppid), allProcesses,
                 Append(chain, chainEntry(current.process)))
  ELSE chain

\* A chain that is left as the loop built it: the process first, its ancestors
\* behind it.
chainYoungestFirst(process, allProcesses) ==
  chainLoop([ defined |-> TRUE, process |-> process ], allProcesses, <<>>)

\* chain.reverse() in buildCommandChain.
chainOldestFirst(process, allProcesses) ==
  reverse(chainLoop([ defined |-> TRUE, process |-> process ], allProcesses, <<>>))

\* chain.join(' -> ').
joinChain(chain) == joinWith(chain, <<" ","-",">"," ">>)

\* buildCommandChain.
buildCommandChain(process, allProcesses) ==
  joinChain(chainOldestFirst(process, allProcesses))

\* getAllDescendants.collect at call depth depth, and the loop over the children
\* it filters out of allProcesses.  st is the descendants array with a flag set
\* once the recursion has exceeded the stack.
RECURSIVE collect(_, _, _, _)
RECURSIVE collectChildren(_, _, _, _)
collect(proc, allProcesses, st, depth) ==
  IF depth > MaxStack THEN [ st EXCEPT !.threw = TRUE ]
  ELSE collectChildren(SelectSeq(allProcesses, LAMBDA p : p.ppid = proc.pid),
                       allProcesses, st, depth)

collectChildren(children, allProcesses, st, depth) ==
  IF st.threw \/ children = <<>> THEN st
  ELSE collectChildren(Tail(children), allProcesses,
         collect(Head(children), allProcesses,
                 [ st EXCEPT !.descendants = Append(@, Head(children)) ], depth + 1),
         depth)

\* A getAllDescendants that stops at the children of the process.
getAllDescendantsChildrenOnly(process, allProcesses) ==
  [ threw |-> FALSE,
    descendants |-> SelectSeq(allProcesses, LAMBDA p : p.ppid = process.pid) ]

\* getAllDescendants: the descendants array, or threw when collect overflowed.
getAllDescendants(process, allProcesses) ==
  collect(process, allProcesses, [ threw |-> FALSE, descendants |-> <<>> ], 1)

\* parseMemoryString: KB to MB.
parseMemoryString(memory) == Frac(parseInt(memory), 1024)

\* A breakdown test that lets the threshold values themselves pass.
isSignificantInclusive(cpuPercent, memoryMB) ==
  cpuPercent >= 1 \/ ~FracLeq(memoryMB, Frac(5, 1)) \/ FracEq(memoryMB, Frac(5, 1))

\* The test that puts a process into the breakdown.
isSignificant(cpuPercent, memoryMB) == cpuPercent > 1 \/ FracGtInt(memoryMB, 5)

\* A loop that assigns the totals where calculateProcessMetrics adds to them.
RECURSIVE accumulateOverwrite(_, _, _)
accumulateOverwrite(related, i, m) ==
  IF i > Len(related) THEN m
  ELSE LET proc == related[i]
           cpuPercent == proc.cpuPercent
           memoryMB == Frac(parseInt(proc.memory), 1024)
       IN  accumulateOverwrite(related, i + 1,
             [ totalCPUPercent |-> cpuPercent,
               totalMemoryMB |-> memoryMB,
               processBreakdown |->
                 IF cpuPercent > 1 \/ FracGtInt(memoryMB, 5)
                 THEN Append(m.processBreakdown,
                        [ name |-> getProcessName(proc.command), pid |-> proc.pid,
                          cpuPercent |-> cpuPercent, memory |-> proc.memory ])
                 ELSE m.processBreakdown ])

\* The loop of calculateProcessMetrics over allRelatedProcesses from index i on.
RECURSIVE accumulate(_, _, _)
accumulate(related, i, m) ==
  IF i > Len(related) THEN m
  ELSE LET proc == related[i]
           cpuPercent == proc.cpuPercent
           memoryMB == parseMemoryString(proc.memory)
       IN  accumulate(related, i + 1,
             [ totalCPUPercent |-> m.totalCPUPercent + cpuPercent,
               totalMemoryMB |-> FracAdd(m.totalMemoryMB, memoryMB),
               processBreakdown |->
                 IF isSignificant(cpuPercent, memoryMB)
                 THEN Append(m.processBreakdown,
                        [ name |-> getProcessName(proc.command), pid |-> proc.pid,
                          cpuPercent |-> cpuPercent, memory |-> proc.memory ])
                 ELSE m.processBreakdown ])

\* e put into a list ordered by falling cpuPercent, after the entries that do not
\* sort behind it (the sort is stable).
insertByCpu(sorted, e) ==
  LET k == Cardinality({ i \in 1..Len(sorted) : sorted[i].cpuPercent >= e.cpuPercent })
  IN  SubSeq(sorted, 1, k) \o <<e>> \o SubSeq(sorted, k + 1, Len(sorted))

\* processBreakdown.sort((a, b) => b.cpuPercent - a.cpuPercent).
RECURSIVE sortByCpu(_)
sortByCpu(entries) ==
  IF entries = <<>> THEN <<>>
  ELSE insertByCpu(sortByCpu(SubSeq(entries, 1, Len(entries) - 1)),
                   entries[Len(entries)])

\* calculateProcessMetrics: the metrics, or threw when the descendant walk did.
calculateProcessMetrics(process, allProcesses) ==
  LET d == getAllDescendants(process, allProcesses)
  IN  IF d.threw THEN [ threw |-> TRUE ]
      ELSE LET allRelatedProcesses == <<process>> \o d.descendants
               m == accumulate(allRelatedProcesses, 1,
                      [ totalCPUPercent |-> 0, totalMemoryMB |-> Frac(0, 1),
                        processBreakdown |-> <<>> ])
           IN  [ threw |-> FALSE,
                 value |-> [ m EXCEPT !.processBreakdown = sortByCpu(@) ] ]

Null == [ kind |-> "null" ]

Thrown == [ kind |-> "throw" ]

\* A try block that picks the most interesting process of the whole snapshot,
\* not of the foreground group.
getActiveProcessTryUnfiltered(exists, procs, q) ==
  IF ~exists THEN Thrown
  ELSE IF Len(procs) = 0 THEN Null
  ELSE LET fgPgid == getForegroundProcessGroup(q)
       IN  IF fgPgid.null \/ fgPgid.value = <<>> THEN Null
           ELSE LET fgProcesses == SelectSeq(procs, LAMBDA p : p.pgid = fgPgid.value)
                IN  IF Len(fgProcesses) = 0 THEN Null
                    ELSE LET activeProcess == findMostInterestingProcess(procs)
                             commandChain == buildCommandChain(activeProcess, procs)
                             env == detectEnvironment(activeProcess, procs)
                             metrics == calculateProcessMetrics(activeProcess, procs)
                         IN  IF metrics.threw THEN Thrown
                             ELSE [ kind |-> "value",
                                    pid |-> activeProcess.pid,
                                    ppid |-> activeProcess.ppid,
                                    pgid |-> activeProcess.pgid,
                                    name |-> getProcessName(activeProcess.command),
                                    command |-> activeProcess.command,
                                    state |-> activeProcess.state,
                                    commandChain |-> commandChain,
                                    environment |-> env.environment,
                                    applicationContext |-> env.applicationContext,
                                    metrics |-> metrics.value ]

\* The try block of getActiveProcess: what it returns, or Thrown.
getActiveProcessTry(exists, procs, q) ==
  IF ~exists THEN Thrown
  ELSE IF Len(procs) = 0 THEN Null
  ELSE LET fgPgid == getForegroundProcessGroup(q)
       IN  IF fgPgid.null \/ fgPgid.value = <<>> THEN Null
           ELSE LET fgProcesses == SelectSeq(procs, LAMBDA p : p.pgid = fgPgid.value)
                IN  IF Len(fgProcesses) = 0 THEN Null
                    ELSE LET activeProcess == findMostInterestingProcess(fgProcesses)
                             commandChain == buildCommandChain(activeProcess, procs)
                             env == detectEnvironment(activeProcess, procs)
                             metrics == calculateProcessMetrics(activeProcess, procs)
                         IN  IF metrics.threw THEN Thrown
                             ELSE [ kind |-> "value",
                                    pid |-> activeProcess.pid,
                                    ppid |-> activeProcess.ppid,
                                    pgid |-> activeProcess.pgid,
                                    name |-> getProcessName(activeProcess.command),
                                    command |-> activeProcess.command,
                                    state |-> activeProcess.state,
                                    commandChain |-> commandChain,
                                    environment |-> env.environment,
                                    applicationContext |-> env.applicationContext,
                                    metrics |-> metrics.value ]

\* A getActiveProcess without its catch clause.
getActiveProcessNoCatch(exists, procs, q) == getActiveProcessTry(exists, procs, q)

\* getActiveProcess: the catch clause turns whatever the try block throws into null.
getActiveProcess(exists, procs, q) ==
  LET r == getActiveProcessTry(exists, procs, q)
  IN  IF r.kind = "throw" THEN Null ELSE r

(***************************************************************************)
(* CommandExecutor.isWaitingForUserInput.                                  *)
(***************************************************************************)
\* The time the loop adds to the accumulator per poll, and sleeps between polls.
CadenceMs == 350

\* The accumulated time at which the loop reports idle.
IdleAfterMs == 1000

\* A loop body that takes "no active process" for an idle process: it counts the
\* poll as below the threshold and keeps polling.
loopBodyNullAsLow(bt, ap) ==
  IF ap.kind = "throw" THEN [ returns |-> TRUE, bt |-> bt ]
  ELSE IF ap.kind = "null" \/ ap.metrics.totalCPUPercent < 10
       THEN [ returns |-> bt + CadenceMs >= IdleAfterMs, bt |-> bt + CadenceMs ]
       ELSE [ returns |-> FALSE, bt |-> 0 ]

\* A loop body that adds the sleep and the poll to the accumulator: twice the
\* cadence per poll.
loopBodyDoubleCount(bt, ap) ==
  IF ap.kind = "throw" THEN [ returns |-> TRUE, bt |-> bt ]
  ELSE IF ap.kind = "null" THEN [ returns |-> TRUE, bt |-> bt ]
  ELSE IF ap.metrics.totalCPUPercent < 10
       THEN [ returns |-> bt + 2 * CadenceMs >= IdleAfterMs, bt |-> bt + 2 * CadenceMs ]
       ELSE [ returns |-> FALSE, bt |-> 0 ]

\* A loop body without the else branch: a busy poll leaves the accumulator alone.
loopBodyNoReset(bt, ap) ==
  IF ap.kind = "throw" THEN [ returns |-> TRUE, bt |-> bt ]
  ELSE IF ap.kind = "null" THEN [ returns |-> TRUE, bt |-> bt ]
  ELSE IF ap.metrics.totalCPUPercent < 10
       THEN [ returns |-> bt + CadenceMs >= IdleAfterMs, bt |-> bt + CadenceMs ]
       ELSE [ returns |-> FALSE, bt |-> bt ]

\* A loop body that gives up: a busy poll that follows an idle one ends the call.
loopBodyGivesUp(bt, ap) ==
  IF ap.kind = "throw" THEN [ returns |-> TRUE, bt |-> bt ]
  ELSE IF ap.kind = "null" THEN [ returns |-> TRUE, bt |-> bt ]
  ELSE IF ap.metrics.totalCPUPercent < 10
       THEN [ returns |-> bt + CadenceMs >= IdleAfterMs, bt |-> bt + CadenceMs ]
       ELSE [ returns |-> bt > 0, bt |-> 0 ]

\* The body of the while loop up to the sleep, for the accumulator bt and the
\* completion ap of the getActiveProcess call: whether it returns, and the
\* accumulator it leaves.  Both the return statements and the inner catch clause
\* return true.
loopBody(bt, ap) ==
  IF ap.kind = "throw" THEN [ returns |-> TRUE, bt |-> bt ]
  ELSE IF ap.kind = "null" THEN [ returns |-> TRUE, bt |-> bt ]
  ELSE IF ap.metrics.totalCPUPercent < 10
       THEN [ returns |-> bt + CadenceMs >= IdleAfterMs, bt |-> bt + CadenceMs ]
       ELSE [ returns |-> FALSE, bt |-> 0 ]

\* A settle without the catch clause and without the return of the finally
\* clause: what the try block throws rejects the promise.
settlePropagating(c) == IF c = "throw" THEN "rejected" ELSE "true"

\* What the promise settles to when the try block completes as c ("return true"
\* or "throw"): the outer catch clause returns true, and the return statement of
\* the finally clause replaces whatever completion reached it.
settle(c) ==
  LET afterCatch == IF c = "throw" THEN "return true" ELSE c
      afterFinally == "return true"
  IN  IF afterFinally = "return true" THEN "true" ELSE "rejected"

\* What one poll observed: no active process, or total CPU under 1% or not.
Observation(ap) ==
  IF ap.kind = "null" THEN "none"
  ELSE IF ap.metrics.totalCPUPercent < 10 THEN "low" ELSE "high"

\* closeSync(fd): an open descriptor becomes closed; closing anything else is
\* a close of a descriptor that is not open.
closeSync(fdState) == IF fdState = "open" THEN "closed" ELSE "bad close"

finallyClauseUnguarded(fdState) == closeSync(fdState)

\* What the finally clause does to fd: if (fd !== undefined) closeSync(fd).
finallyClause(fdState) ==
  IF fdState # "undefined" THEN closeSync(fdState) ELSE fdState

\* The longest snapshot drawn for a poll of a detector call.
MaxPollProcs == MaxProcs - 1

\* openSync(ttyPath, 'r'), and on success the set-up of the loop.  When it throws,
\* the catch and finally clauses run with fd still undefined.
Open ==
  /\ pc = "call"
  /\ \E opened \in BOOLEAN :
       IF opened
       THEN /\ fd' = "open"
            /\ belowThresholdTime' = 0
            /\ pc' = "poll"
            /\ UNCHANGED returned
       ELSE /\ pc' = "done"
            /\ returned' = settle("throw")
            /\ fd' = finallyClause(fd)
            /\ UNCHANGED belowThresholdTime
  /\ UNCHANGED << history, trackerVars, otherVars >>

\* One iteration of the loop up to its sleep: the getActiveProcess call against
\* what the OS shows at that moment, and the loop body.  A return runs the finally
\* clause, which closes the descriptor.
Poll ==
  /\ pc = "poll"
  /\ Len(history) < MaxPolls
  /\ \E exists \in BOOLEAN, n \in 0..MaxPollProcs, q \in FgQueries :
     \E rows \in Rows(n, PollProfiles) :
       /\ exists \/ (n = 0 /\ q.failed)
       /\ \E ap \in { getActiveProcess(exists, Snapshot(n, rows), q) } :
          \E r \in { loopBody(belowThresholdTime, ap) } :
            /\ ttyExists' = exists
            /\ processes' = Snapshot(n, rows)
            /\ fgQuery' = q
            /\ applied' = "getActiveProcess"
            /\ outcome' = ap
            /\ history' = Append(history, Observation(ap))
            /\ belowThresholdTime' = r.bt
            /\ IF r.returns
               THEN /\ pc' = "done"
                    /\ fd' = finallyClause(fd)
                    /\ returned' = settle("return true")
               ELSE /\ pc' = "sleep"
                    /\ UNCHANGED << fd, returned >>
  /\ UNCHANGED << walkRoot, walk, otherVars >>

\* await sleep(350), which ends the iteration: the next one starts without the
\* iteration's locals (activeProcess and what it was computed from).
Sleep ==
  /\ pc = "sleep"
  /\ pc' = "poll"
  /\ ttyExists' = TRUE
  /\ processes' = <<>>
  /\ fgQuery' = [ failed |-> TRUE, stdout |-> <<>> ]
  /\ applied' = "none"
  /\ outcome' = Null
  /\ UNCHANGED << walkRoot, walk, fd, belowThresholdTime, returned, history, otherVars >>

NoWalk == [ threw |-> FALSE, descendants |-> <<>> ]

\* The locals of an isWaitingForUserInput call that has not been made.
NoCall ==
  [ pc |-> "off", fd |-> "undefined", belowThresholdTime |-> 0,
    returned |-> "pending", history |-> <<>> ]

\* No ps query made, no function applied, no concurrent calls and no
\* executeCommand call under way.
OthersAtRest ==
  /\ psQuery = [ failed |-> TRUE, stdout |-> <<>> ]
  /\ result = [ kind |-> "null" ]
  /\ calls = [ c \in 1..2 |-> NoCall ]
  /\ execPc = "off"
  /\ events = <<>>
  /\ input = <<>>
  /\ manager = <<>>

Init ==
  /\ ttyExists = TRUE
  /\ processes = <<>>
  /\ fgQuery = [ failed |-> TRUE, stdout |-> <<>> ]
  /\ applied = "none"
  /\ outcome = Null
  /\ walkRoot = 0
  /\ walk = NoWalk
  /\ pc = "call"
  /\ fd = "undefined"
  /\ belowThresholdTime = 0
  /\ returned = "pending"
  /\ history = <<>>
  /\ OthersAtRest

Next == Open \/ Poll \/ Sleep

\* One call of isWaitingForUserInput, polling the real tracker.
Spec == Init /\ [][Next]_vars

(***************************************************************************)
(* The tracker's functions applied to every snapshot.                      *)
(***************************************************************************)
PidsOf(procs) == [ i \in 1..Len(procs) |-> procs[i].pid ]

\* getActiveProcess(ttyPath) on the drawn snapshot, for each state of the device
\* path and each result of the foreground-group query.
ApplyGetActiveProcess ==
  /\ applied = "none"
  /\ \E exists \in BOOLEAN, q \in FgQueries :
       /\ exists \/ q.failed
       /\ ttyExists' = exists
       /\ fgQuery' = q
       /\ outcome' = getActiveProcess(exists, processes, q)
  /\ applied' = "getActiveProcess"
  /\ UNCHANGED << processes, walkRoot, walk, detectorVars, otherVars >>

\* getAllDescendants(R, processes) for each process R of the drawn snapshot.
ApplyGetAllDescendants ==
  /\ applied = "none"
  /\ \E r \in 1..Len(processes) :
       LET d == getAllDescendants(processes[r], processes)
       IN  /\ walkRoot' = r
           /\ walk' = [ threw |-> d.threw, descendants |-> PidsOf(d.descendants) ]
  /\ applied' = "getAllDescendants"
  /\ UNCHANGED << ttyExists, processes, fgQuery, outcome, detectorVars, otherVars >>

InitTracker ==
  /\ ttyExists = TRUE
  /\ \E n \in 0..MaxProcs : \E rows \in Rows(n, Profiles) :
       processes = Snapshot(n, rows)
  /\ fgQuery = [ failed |-> TRUE, stdout |-> <<>> ]
  /\ applied = "none"
  /\ outcome = Null
  /\ walkRoot = 0
  /\ walk = NoWalk
  /\ pc = "off"
  /\ fd = "undefined"
  /\ belowThresholdTime = 0
  /\ returned = "pending"
  /\ history = <<>>
  /\ OthersAtRest

NextTracker == ApplyGetActiveProcess \/ ApplyGetAllDescendants

SpecTracker == InitTracker /\ [][NextTracker]_vars

(***************************************************************************)
(* The interest scorer applied to every candidate list.                    *)
(***************************************************************************)
\* What the candidates are drawn from: the run states R and S and a stopped
\* process; 0%, 12%, exactly 50% and 99% CPU; a shell, a REPL, a package manager
\* and a command that is none of these.
CandidateStates == { "R", "S", "T" }

CandidateCpus == { 0, 120, 500, 990 }

CandidateCommands ==
  { <<"/","b","i","n","/","b","a","s","h">>, <<"p","y","t","h","o","n">>,
    <<"n","p","m"," ","i">>, <<"v","i","m">> }

Candidates(n) == [ 1..n -> CandidateStates \X CandidateCpus \X CandidateCommands ]

\* The candidate list that c chooses: processes of one foreground group.
CandidateList(n, c) ==
  [ i \in 1..n |->
      ProcessInfo(i, 0, [ pgid |-> <<"2">>, state |-> c[i][1], cpuPercent |-> c[i][2],
                          memory |-> <<"0">>, command |-> c[i][3] ]) ]

\* calculateProcessScore(C) for each candidate C of the drawn list.
ApplyCalculateProcessScore ==
  /\ applied = "none"
  /\ \E i \in 1..Len(processes) :
       result' = [ kind |-> "score", index |-> i,
                   score |-> calculateProcessScore(processes[i]) ]
  /\ applied' = "calculateProcessScore"
  /\ UNCHANGED << ttyExists, processes, fgQuery, outcome, walkRoot, walk,
                  detectorVars, psQuery, serverVars, calls, callerVars >>

\* findMostInterestingProcess(processes) for the drawn list.
ApplyFindMostInterestingProcess ==
  /\ applied = "none"
  /\ result' = [ kind |-> "process", process |-> findMostInterestingProcess(processes) ]
  /\ applied' = "findMostInterestingProcess"
  /\ UNCHANGED << ttyExists, processes, fgQuery, outcome, walkRoot, walk,
                  detectorVars, psQuery, serverVars, calls, callerVars >>

InitScorer ==
  /\ ttyExists = TRUE
  /\ \E n \in 1..MaxCands : \E c \in Candidates(n) : processes = CandidateList(n, c)
  /\ fgQuery = [ failed |-> TRUE, stdout |-> <<>> ]
  /\ applied = "none"
  /\ outcome = Null
  /\ walkRoot = 0
  /\ walk = NoWalk
  /\ pc = "off"
  /\ fd = "undefined"
  /\ belowThresholdTime = 0
  /\ returned = "pending"
  /\ history = <<>>
  /\ OthersAtRest

NextScorer == ApplyCalculateProcessScore \/ ApplyFindMostInterestingProcess

SpecScorer == InitScorer /\ [][NextScorer]_vars

(***************************************************************************)
(* The environment classifier applied to a set of commands.                *)
(***************************************************************************)
\* The commands drawn: a directory or none, then a file name (every REPL name,
\* the package managers, ruby, a shell and an editor), then arguments or none.
CommandDirs == { <<>>, <<"/","u","s","r","/","b","i","n","/">> }

CommandFiles ==
  replNames \cup labelledPackageManagers
    \cup { <<"r","u","b","y">>, <<"b","a","s","h">>, <<"v","i","m">>,
           <<"P","y","t","h","o","n">> }

CommandArgs ==
  { <<>>,
    <<" ","x">>,
    <<" ","b","i","n","/","r","a","i","l","s"," ","c","o","n","s","o","l","e">>,
    <<" ","b","i","n","/","r","a","i","l","s"," ","c","o","n","s","o","l","e"," ","R",
      "A","I","L","S","_","E","N","V","=","s","t","a","g","i","n","g">>,
    <<" ","-","r"," ","/","a","p","p","s","/","m","y","a","p","p","/","c","o","n","f",
      "i","g","/","e","n","v","i","r","o","n","m","e","n","t"," ","b","i","n","/","r",
      "a","i","l","s"," ","c","o","n","s","o","l","e"," ","R","A","I","L","S","_","E",
      "N","V","=","s","t","a","g","i","n","g">>,
    <<" ","b","i","n","/","r","a","i","l","s"," ","s","e","r","v","e","r">>,
    <<" ","b","i","n","/","R","a","i","l","s"," ","C","o","n","s","o","l","e">> }

\* detectEnvironment(P, [P]) for a process P that runs the drawn command.
ApplyDetectEnvironment ==
  /\ applied = "none"
  /\ result' = detectEnvironment(processes[1], processes)
  /\ applied' = "detectEnvironment"
  /\ UNCHANGED << ttyExists, processes, fgQuery, outcome, walkRoot, walk,
                  detectorVars, psQuery, serverVars, calls, callerVars >>

InitClassifier ==
  /\ ttyExists = TRUE
  /\ \E dir \in CommandDirs, file \in CommandFiles, args \in CommandArgs :
       processes = << ProcessInfo(1, 0, [ pgid |-> <<"2">>, state |-> "S",
                                          cpuPercent |-> 0, memory |-> <<"0">>,
                                          command |-> dir \o file \o args ]) >>
  /\ fgQuery = [ failed |-> TRUE, stdout |-> <<>> ]
  /\ applied = "none"
  /\ outcome = Null
  /\ walkRoot = 0
  /\ walk = NoWalk
  /\ pc = "off"
  /\ fd = "undefined"
  /\ belowThresholdTime = 0
  /\ returned = "pending"
  /\ history = <<>>
  /\ OthersAtRest

NextClassifier == ApplyDetectEnvironment

SpecClassifier == InitClassifier /\ [][NextClassifier]_vars

(***************************************************************************)
(* The snapshotter applied to what ps prints.                              *)
(***************************************************************************)
\* The header ps prints for -o pid,ppid,pgid,sess,state,%cpu,rss,time,command.
PsHeader ==
  <<" "," ","P","I","D"," "," ","P","P","I","D"," "," ","P","G","I","D"," "," "," ",
      "S","E","S","S"," ","S","T","A","T"," "," ","%","C","P","U"," "," "," "," ","R",
      "S","S"," "," "," "," "," "," ","T","I","M","E"," ","C","O","M","M","A","N","D">>

DigitChar(i) == << "0","1","2","3","4","5","6","7","8","9" >>[i + 1]

\* The text of ps for a process: right-aligned columns and the command.  The
\* shapes: a command of one word; a command with arguments and a run of blanks;
\* a line cut before the command (8 fields).
PsShapes == { "word", "args", "cut" }

PsLine(row) ==
  LET columns == <<" "," "," ">> \o << DigitChar(row.pid) >>
                   \o <<" "," "," "," ">> \o << DigitChar(row.ppid) >>
                   \o <<" "," "," "," "," ","2"," "," "," "," "," "," ","1"," ","S"," "," "," "," "," ",
      " ","0",".","5"," "," "," ","5","1","2","1"," "," "," ","0",":","0","0",".","0",
      "1">>
  IN  CASE row.shape = "word" -> columns \o <<" ","s","h">>
        [] row.shape = "args" -> columns \o <<" ","n","p","m"," "," ","r","u","n"," ","x">>
        [] row.shape = "cut" -> columns

\* The header and the lines of the rows, each ended by a line feed.
RECURSIVE PsText(_)
PsText(table) ==
  IF table = <<>> THEN PsHeader \o << "\n" >>
  ELSE PsText(SubSeq(table, 1, Len(table) - 1)) \o PsLine(table[Len(table)]) \o << "\n" >>

\* The process tables drawn: the i-th row is process i, with any parent link
\* (0: a process not on the terminal) and any shape.
PsRows(n) == [ 1..n -> (0..n) \X PsShapes ]

PsTable(n, rows) ==
  [ i \in 1..n |-> [ pid |-> i, ppid |-> rows[i][1], shape |-> rows[i][2] ] ]

\* getProcessesForTTY(ttyName) for what the ps query did.
ApplyGetProcessesForTTY ==
  /\ applied = "none"
  /\ processes' = getProcessesForTTY(psQuery)
  /\ applied' = "getProcessesForTTY"
  /\ UNCHANGED << ttyExists, fgQuery, outcome, walkRoot, walk, detectorVars,
                  psQuery, serverVars, result, calls, callerVars >>

\* The ps query fails; or prints nothing; or prints the header and a table.
InitSnapshot ==
  /\ ttyExists = TRUE
  /\ processes = <<>>
  /\ \/ psQuery = [ failed |-> TRUE, table |-> <<>>, stdout |-> <<>> ]
     \/ psQuery = [ failed |-> FALSE, table |-> <<>>, stdout |-> <<>> ]
     \/ \E n \in 0..MaxRows : \E rows \in PsRows(n) :
          psQuery = [ failed |-> FALSE, table |-> PsTable(n, rows),
                      stdout |-> PsText(PsTable(n, rows)) ]
  /\ fgQuery = [ failed |-> TRUE, stdout |-> <<>> ]
  /\ applied = "none"
  /\ outcome = Null
  /\ walkRoot = 0
  /\ walk = NoWalk
  /\ pc = "off"
  /\ fd = "undefined"
  /\ belowThresholdTime = 0
  /\ returned = "pending"
  /\ history = <<>>
  /\ result = Null
  /\ calls = [ c \in 1..2 |-> NoCall ]
  /\ execPc = "off"
  /\ events = <<>>
  /\ input = <<>>
  /\ manager = <<>>

NextSnapshot == ApplyGetProcessesForTTY

SpecSnapshot == InitSnapshot /\ [][NextSnapshot]_vars

(***************************************************************************)
(* The command chain built for every process of every snapshot.            *)
(***************************************************************************)
\* The rows drawn: a shell, a Rails console and a brew install.
RailsConsoleJob ==
  [ pgid |-> <<"2">>, state |-> "S", cpuPercent |-> 5, memory |-> <<"2","0","4","8","0">>,
    command |-> <<"r","u","b","y"," ","b","i","n","/","r","a","i","l","s"," ","c","o","n","s","o",
      "l","e">> ]

BrewInstallJob ==
  [ pgid |-> <<"2">>, state |-> "R", cpuPercent |-> 50, memory |-> <<"5","1","2","0">>,
    command |-> <<"b","r","e","w"," ","i","n","s","t","a","l","l"," ","w","g","e","t">> ]

ChainProfiles == { ShellIdle, RailsConsoleJob, BrewInstallJob }

\* buildCommandChain(P, processes) for each process P of the drawn snapshot.
ApplyBuildCommandChain ==
  /\ applied = "none"
  /\ \E r \in 1..Len(processes) :
     \E chain \in { chainOldestFirst(processes[r], processes) } :
       /\ walkRoot' = r
       /\ result' = [ kind |-> "chain", chain |-> chain,
                      commandChain |-> joinChain(chain) ]
  /\ applied' = "buildCommandChain"
  /\ UNCHANGED << ttyExists, processes, fgQuery, outcome, walk, detectorVars,
                  psQuery, serverVars, calls, callerVars >>

InitChain ==
  /\ ttyExists = TRUE
  /\ \E n \in 1..MaxProcs : \E rows \in Rows(n, ChainProfiles) :
       processes = Snapshot(n, rows)
  /\ fgQuery = [ failed |-> TRUE, stdout |-> <<>> ]
  /\ applied = "none"
  /\ outcome = Null
  /\ walkRoot = 0
  /\ walk = NoWalk
  /\ pc = "off"
  /\ fd = "undefined"
  /\ belowThresholdTime = 0
  /\ returned = "pending"
  /\ history = <<>>
  /\ OthersAtRest

NextChain == ApplyBuildCommandChain

SpecChain == InitChain /\ [][NextChain]_vars

(***************************************************************************)
(* Two isWaitingForUserInput calls, for two terminal devices, whose steps  *)
(* interleave at the awaits of the loop.                                   *)
(***************************************************************************)
\* An accumulator kept where both calls reach it (a field of a shared object)
\* instead of in a local variable of each call.
accumulatorShared(cs, c) == cs[1].belowThresholdTime

\* let belowThresholdTime: a local variable of call c.
accumulatorOf(cs, c) == cs[c].belowThresholdTime

\* The foreground-group query prints group 2.
PrintsGroup2 == [ failed |-> FALSE, stdout |-> <<" ","2","\n">> ]

\* What a poll of either call can find on its own device: no process, a REPL at
\* 0.5% CPU, or a job at 5%.
DeviceTables ==
  { <<>>, << ProcessInfo(1, 0, ReplLow) >>, << ProcessInfo(1, 0, JobBusy) >> }

\* Call c opens its device and sets up its loop (or fails to open it).
OpenCall(c) ==
  /\ calls[c].pc = "call"
  /\ \E opened \in BOOLEAN :
       calls' = [ calls EXCEPT ![c] =
                    IF opened
                    THEN [ @ EXCEPT !.fd = "open", !.belowThresholdTime = 0,
                                    !.pc = "poll" ]
                    ELSE [ @ EXCEPT !.pc = "done", !.returned = settle("throw"),
                                    !.fd = finallyClause(@) ] ]
  /\ UNCHANGED << trackerVars, detectorVars, psQuery, serverVars, result, callerVars >>

\* One iteration of the loop of call c up to its sleep, with its own tracker (new
\* ProcessTracker()) on its own device.
PollCall(c) ==
  /\ calls[c].pc = "poll"
  /\ Len(calls[c].history) < MaxPollsEach
  /\ \E table \in DeviceTables :
     \E ap \in { getActiveProcess(TRUE, table, PrintsGroup2) } :
     \E r \in { loopBody(accumulatorOf(calls, c), ap) } :
       calls' = [ calls EXCEPT ![c] =
                    [ @ EXCEPT !.history = Append(@, ap),
                               !.belowThresholdTime = r.bt,
                               !.pc = IF r.returns THEN "done" ELSE "sleep",
                               !.fd = IF r.returns THEN finallyClause(@) ELSE @,
                               !.returned = IF r.returns THEN settle("return true")
                                            ELSE @ ] ]
  /\ UNCHANGED << trackerVars, detectorVars, psQuery, serverVars, result, callerVars >>

\* await sleep(350) of call c is over.
SleepCall(c) ==
  /\ calls[c].pc = "sleep"
  /\ calls' = [ calls EXCEPT ![c] = [ @ EXCEPT !.pc = "poll" ] ]
  /\ UNCHANGED << trackerVars, detectorVars, psQuery, serverVars, result, callerVars >>

OpenEither == \E c \in 1..2 : OpenCall(c)

PollEither == \E c \in 1..2 : PollCall(c)

SleepEither == \E c \in 1..2 : SleepCall(c)

InitTwo ==
  /\ ttyExists = TRUE
  /\ processes = <<>>
  /\ fgQuery = [ failed |-> TRUE, stdout |-> <<>> ]
  /\ applied = "none"
  /\ outcome = Null
  /\ walkRoot = 0
  /\ walk = NoWalk
  /\ pc = "off"
  /\ fd = "undefined"
  /\ belowThresholdTime = 0
  /\ returned = "pending"
  /\ history = <<>>
  /\ psQuery = [ failed |-> TRUE, stdout |-> <<>> ]
  /\ result = Null
  /\ calls = [ c \in 1..2 |-> [ NoCall EXCEPT !.pc = "call" ] ]
  /\ execPc = "off"
  /\ events = <<>>
  /\ input = <<>>
  /\ manager = <<>>

NextTwo == OpenEither \/ PollEither \/ SleepEither

SpecTwo == InitTwo /\ [][NextTwo]_vars

(***************************************************************************)
(* CommandExecutor.executeCommand, with the isWaitingForUserInput call it  *)
(* awaits.                                                                 *)
(***************************************************************************)
\* An executeCommand that reads the buffer once it has the tty path, without
\* waiting for the idle detector.
nextStepWithoutIdleWait(at, answer) ==
  IF answer \in { "throw", "rejected" } THEN "failed"
  ELSE CASE at = "writeText" -> "isProcessing"
         [] at = "isProcessing" ->
              IF answer = "true" THEN "isProcessing" ELSE "retrieveTtyPath"
         [] at = "retrieveTtyPath" -> "settle"
         [] at = "isWaitingForUserInput" ->
              IF answer = "false" THEN "isWaitingForUserInput" ELSE "settle"
         [] at = "settle" -> "retrieveBuffer"
         [] at = "retrieveBuffer" -> "done"

\* An executeCommand whose catch clause swallows what was thrown: the flow goes
\* on with the step after the one that failed.
nextStepSwallowing(at, answer) ==
  CASE at = "writeText" -> "isProcessing"
    [] at = "isProcessing" ->
         IF answer = "true" THEN "isProcessing" ELSE "retrieveTtyPath"
    [] at = "retrieveTtyPath" -> "isWaitingForUserInput"
    [] at = "isWaitingForUserInput" ->
         IF answer = "false" THEN "isWaitingForUserInput" ELSE "settle"
    [] at = "settle" -> "retrieveBuffer"
    [] at = "retrieveBuffer" -> "done"

\* Where executeCommand goes from the await at position at, if what it awaited
\* completed with answer.  What is thrown reaches the catch clause, which throws
\* in turn; both while loops sleep 100 ms and evaluate their condition again.
nextStep(at, answer) ==
  IF answer \in { "throw", "rejected" } THEN "failed"
  ELSE CASE at = "writeText" -> "isProcessing"
         [] at = "isProcessing" ->
              IF answer = "true" THEN "isProcessing" ELSE "retrieveTtyPath"
         [] at = "retrieveTtyPath" -> "isWaitingForUserInput"
         [] at = "isWaitingForUserInput" ->
              IF answer = "false" THEN "isWaitingForUserInput" ELSE "settle"
         [] at = "settle" -> "retrieveBuffer"
         [] at = "retrieveBuffer" -> "done"

\* The message of the error that a failed osascript run rejects with.
ExecError == "Command failed: osascript"

\* The message of what the await at position at throws when its osascript run
\* fails, as the pieces of the template string: isProcessing and
\* retrieveTtyPath wrap the error, the other awaits pass it on as it is.
thrownMessage(at) ==
  CASE at = "isProcessing" -> << "Failed to check processing status: ", ExecError >>
    [] at = "retrieveTtyPath" -> << "Failed to retrieve TTY path: ", ExecError >>
    [] OTHER -> << ExecError >>

\* The catch clause of executeCommand: throw new Error(`Failed to execute
\* command: ${message}`).
catchClause(message) ==
  [ kind |-> "throw", message |-> << "Failed to execute command: " >> \o message ]

\* What executeCommand has settled to after the await at position at completed
\* with answer: the rejection of the catch clause if the flow failed there.
settled(at, answer, before) ==
  IF nextStep(at, answer) = "failed" THEN catchClause(thrownMessage(at)) ELSE before

\* await execPromise(osascript ... write text ...).
WriteText ==
  /\ execPc = "writeText"
  /\ \E answer \in { "ok", "throw" } :
       /\ execPc' = nextStep("writeText", answer)
       /\ events' = IF answer = "ok" THEN Append(events, "written") ELSE events
       /\ result' = settled("writeText", answer, result)
  /\ UNCHANGED << trackerVars, detectorVars, psQuery, serverVars, calls >>

\* while (await this.isProcessing()) await sleep(100).
CheckProcessing ==
  /\ execPc = "isProcessing"
  /\ \E answer \in { "true", "false", "throw" } :
       /\ execPc' = nextStep("isProcessing", answer)
       /\ events' = IF answer = "false" THEN Append(events, "notProcessing") ELSE events
       /\ result' = settled("isProcessing", answer, result)
  /\ UNCHANGED << trackerVars, detectorVars, psQuery, serverVars, calls >>

\* const ttyPath = await this.retrieveTtyPath(), and on success the call of
\* isWaitingForUserInput(ttyPath) or, where the flow goes on without it, nothing.
RetrieveTtyPath ==
  /\ execPc = "retrieveTtyPath"
  /\ \E answer \in { "ok", "throw" } :
       /\ execPc' = nextStep("retrieveTtyPath", answer)
       /\ events' = IF answer = "ok" THEN Append(events, "ttyPath") ELSE events
       /\ pc' = IF nextStep("retrieveTtyPath", answer) = "isWaitingForUserInput"
                THEN "call" ELSE pc
       /\ result' = settled("retrieveTtyPath", answer, result)
  /\ UNCHANGED << trackerVars, fd, belowThresholdTime, returned, history,
                  psQuery, serverVars, calls >>

\* The isWaitingForUserInput call has settled: the condition of the second while
\* loop.  The locals of the call are gone; on false the loop runs its body,
\* await sleep(100), and calls again.
IdleAnswer ==
  /\ execPc = "isWaitingForUserInput"
  /\ pc = "done"
  /\ execPc' = nextStep("isWaitingForUserInput", returned)
  /\ events' = IF returned = "true" THEN Append(events, "idle")
               ELSE IF returned = "false" THEN Append(events, "sleep100")
               ELSE events
  /\ pc' = IF nextStep("isWaitingForUserInput", returned) = "isWaitingForUserInput"
           THEN "call" ELSE "off"
  /\ fd' = "undefined"
  /\ belowThresholdTime' = 0
  /\ returned' = "pending"
  /\ history' = <<>>
  /\ ttyExists' = TRUE
  /\ processes' = <<>>
  /\ fgQuery' = [ failed |-> TRUE, stdout |-> <<>> ]
  /\ applied' = "none"
  /\ outcome' = Null
  /\ result' = settled("isWaitingForUserInput", returned, result)
  /\ UNCHANGED << walkRoot, walk, psQuery, serverVars, calls >>

\* await sleep(200).
SettleDelay ==
  /\ execPc = "settle"
  /\ execPc' = nextStep("settle", "ok")
  /\ UNCHANGED << trackerVars, detectorVars, psQuery, serverVars, result, calls, events >>

\* await TtyOutputReader.retrieveBuffer().
RetrieveBuffer ==
  /\ execPc = "retrieveBuffer"
  /\ \E answer \in { "ok", "throw" } :
       /\ execPc' = nextStep("retrieveBuffer", answer)
       /\ result' = settled("retrieveBuffer", answer, result)
  /\ events' = Append(events, "retrieveBuffer")
  /\ UNCHANGED << trackerVars, detectorVars, psQuery, serverVars, calls >>

InitExec ==
  /\ ttyExists = TRUE
  /\ processes = <<>>
  /\ fgQuery = [ failed |-> TRUE, stdout |-> <<>> ]
  /\ applied = "none"
  /\ outcome = Null
  /\ walkRoot = 0
  /\ walk = NoWalk
  /\ pc = "off"
  /\ fd = "undefined"
  /\ belowThresholdTime = 0
  /\ returned = "pending"
  /\ history = <<>>
  /\ psQuery = [ failed |-> TRUE, stdout |-> <<>> ]
  /\ result = Null
  /\ calls = [ c \in 1..2 |-> NoCall ]
  /\ execPc = "writeText"
  /\ events = <<>>
  /\ input = <<>>
  /\ manager = <<>>

NextExec ==
  \/ WriteText
  \/ CheckProcessing
  \/ RetrieveTtyPath
  \/ Open
  \/ Poll
  \/ Sleep
  \/ IdleAnswer
  \/ SettleDelay
  \/ RetrieveBuffer

SpecExec == InitExec /\ [][NextExec]_vars

(***************************************************************************)
(* One isWaitingForUserInput call followed for any number of polls: of the *)
(* polls made, only the last three are kept.                               *)
(***************************************************************************)
\* The most processes a poll of the unbounded loop finds on the tty.
MaxLoopProcs == 1

\* The last three entries of h.
LastThree(h) == IF Len(h) <= 3 THEN h ELSE SubSeq(h, Len(h) - 2, Len(h))

\* One iteration of the loop up to its sleep, as Poll, however many went before.
PollAgain ==
  /\ pc = "poll"
  /\ \E exists \in BOOLEAN, n \in 0..MaxLoopProcs, q \in FgQueries :
     \E rows \in Rows(n, PollProfiles) :
       /\ exists \/ (n = 0 /\ q.failed)
       /\ ttyExists' = exists
       /\ processes' = Snapshot(n, rows)
       /\ fgQuery' = q
       /\ applied' = "getActiveProcess"
       /\ \E ap \in { getActiveProcess(exists, Snapshot(n, rows), q) } :
          \E r \in { loopBody(belowThresholdTime, ap) } :
            /\ outcome' = ap
            /\ history' = LastThree(Append(history, Observation(ap)))
            /\ belowThresholdTime' = r.bt
            /\ IF r.returns
               THEN /\ pc' = "done"
                    /\ fd' = finallyClause(fd)
                    /\ returned' = settle("return true")
               ELSE /\ pc' = "sleep"
                    /\ UNCHANGED << fd, returned >>
  /\ UNCHANGED << walkRoot, walk, otherVars >>

NextLoop == Open \/ PollAgain \/ Sleep

\* The event loop runs the call whenever it can go on: the timer of sleep(350)
\* fires and the OS queries of a poll complete.
SpecLoop == Init /\ [][NextLoop]_vars /\ WF_vars(NextLoop)

(***************************************************************************)
(* One TerminalManager: two callers of getTerminal whose calls interleave  *)
(* at its awaits, the operations on the sessions it returns, and the user  *)
(* closing windows.                                                        *)
(***************************************************************************)
\* The most windows created while the manager is followed.
MaxWindows == 2

\* The window ids that stand for the active terminal.
ActiveIds == { "active", "active-fallback" }

\* The locals of a getTerminal call that has not been made, with what the
\* manager had stored when the call began and whether a call had fallen back
\* to the active terminal by then.
NoGetTerminal ==
  [ pc |-> "off", stored |-> "null", checked |-> "null", existed |-> FALSE,
    answer |-> "none", made |-> "none", returned |-> "pending",
    afterFallback |-> FALSE ]

\* The window executeInTerminal, readTerminalOutput and sendControlCharacter
\* address for a session.
targetOf(windowId) ==
  IF windowId \in ActiveIds THEN "current session of current window"
  ELSE windowId

\* A getTerminal that does not look at options.createDedicatedTerminal.
GetTerminalWhateverTheOption(c) ==
  /\ manager.calls[c].pc \in { "off", "done" }
  /\ manager.created < MaxWindows
  /\ LET fresh == [ NoGetTerminal EXCEPT !.stored = manager.terminalSession,
                                         !.afterFallback = manager.fellBack ]
     IN  manager' =
           [ manager EXCEPT !.calls[c] =
               IF manager.terminalSession # "null"
               THEN [ fresh EXCEPT !.pc = "windowExists",
                                   !.checked = manager.terminalSession ]
               ELSE [ fresh EXCEPT !.pc = "create" ] ]
  /\ UNCHANGED << trackerVars, detectorVars, psQuery, result, calls, callerVars, input >>

\* getTerminal up to its first await.
GetTerminal(c) ==
  /\ manager.calls[c].pc \in { "off", "done" }
  /\ manager.created < MaxWindows
  /\ LET fresh == [ NoGetTerminal EXCEPT !.stored = manager.terminalSession,
                                         !.afterFallback = manager.fellBack ]
     IN  manager' =
           [ manager EXCEPT !.calls[c] =
               IF ~manager.options.createDedicatedTerminal
               THEN [ fresh EXCEPT !.pc = "done", !.returned = "active" ]
               ELSE IF manager.terminalSession # "null"
               THEN [ fresh EXCEPT !.pc = "windowExists",
                                   !.checked = manager.terminalSession ]
               ELSE [ fresh EXCEPT !.pc = "create" ] ]
  /\ UNCHANGED << trackerVars, detectorVars, psQuery, result, calls, callerVars, input >>

\* windowExists answers: true for the active ids; otherwise what the osascript
\* query prints, false when the query fails.
WindowExists(c) ==
  /\ manager.calls[c].pc = "windowExists"
  /\ LET id == manager.calls[c].checked
     IN  \E failed \in BOOLEAN :
           /\ failed => id \notin ActiveIds
           /\ LET exists == IF id \in ActiveIds THEN TRUE
                            ELSE ~failed /\ id \in manager.windows
                  seen == [ manager.calls[c] EXCEPT
                              !.existed = id \in manager.windows,
                              !.answer = IF exists THEN "true" ELSE "false" ]
              IN  manager' =
                    [ manager EXCEPT !.calls[c] =
                        IF exists
                        THEN [ seen EXCEPT !.pc = "done",
                                           !.returned = manager.terminalSession ]
                        ELSE [ seen EXCEPT !.pc = "create" ] ]
  /\ UNCHANGED << trackerVars, detectorVars, psQuery, result, calls, callerVars, input >>

\* createDedicatedTerminal answers and getTerminal stores, persists and
\* returns the session: a new window with the id iTerm gives it, or
\* 'active-fallback' when the osascript query fails or prints no id.
CreateDedicatedTerminal(c) ==
  /\ manager.calls[c].pc = "create"
  /\ \E failed \in BOOLEAN :
       LET WindowIds == << "w1", "w2", "w3", "w4", "w5" >>
           id == WindowIds[manager.created + 1]
           windowId == IF failed THEN "active-fallback" ELSE id
       IN  manager' =
             [ manager EXCEPT
                 !.windows = IF failed THEN @ ELSE @ \cup { id },
                 !.created = IF failed THEN @ ELSE @ + 1,
                 !.fellBack = @ \/ failed,
                 !.terminalSession = windowId,
                 !.file = IF failed THEN @ ELSE windowId,
                 !.calls[c] = [ @ EXCEPT !.pc = "done",
                                         !.made = IF failed THEN "none" ELSE id,
                                         !.returned = windowId ] ]
  /\ UNCHANGED << trackerVars, detectorVars, psQuery, result, calls, callerVars, input >>

\* executeInTerminal, readTerminalOutput or sendControlCharacter on the
\* session a getTerminal call returned.
UseTerminal(c) ==
  /\ manager.calls[c].pc = "done"
  /\ \E op \in { "executeInTerminal", "readTerminalOutput", "sendControlCharacter" } :
       manager' = [ manager EXCEPT !.lastUse =
                      [ op |-> op, session |-> manager.calls[c].returned,
                        target |-> targetOf(manager.calls[c].returned) ] ]
  /\ UNCHANGED << trackerVars, detectorVars, psQuery, result, calls, callerVars, input >>

\* The user closes a window.
CloseWindow ==
  /\ \E w \in manager.windows :
       manager' = [ manager EXCEPT !.windows = @ \ { w }, !.closed = TRUE ]
  /\ UNCHANGED << trackerVars, detectorVars, psQuery, result, calls, callerVars, input >>

\* After the constructor: the options, and the session loadPersistedTerminal
\* found in the file of an earlier run (whose window may be gone).
InitTerminal ==
  /\ ttyExists = TRUE
  /\ processes = <<>>
  /\ fgQuery = [ failed |-> TRUE, stdout |-> <<>> ]
  /\ applied = "none"
  /\ outcome = Null
  /\ walkRoot = 0
  /\ walk = NoWalk
  /\ pc = "off"
  /\ fd = "undefined"
  /\ belowThresholdTime = 0
  /\ returned = "pending"
  /\ history = <<>>
  /\ psQuery = [ failed |-> TRUE, stdout |-> <<>> ]
  /\ result = [ kind |-> "null" ]
  /\ calls = [ c \in 1..2 |-> NoCall ]
  /\ execPc = "off"
  /\ events = <<>>
  /\ input = <<>>
  /\ \E dedicated \in BOOLEAN, persisted \in { "null", "w0" }, open \in BOOLEAN :
       /\ open => persisted = "w0"
       /\ manager = [ options |-> [ createDedicatedTerminal |-> dedicated ],
                      terminalSession |-> persisted,
                      file |-> persisted,
                      windows |-> IF open THEN { "w0" } ELSE {},
                      created |-> 0,
                      closed |-> FALSE,
                      fellBack |-> FALSE,
                      lastUse |-> [ op |-> "none", session |-> "none", target |-> "none" ],
                      calls |-> [ c \in 1..2 |-> NoGetTerminal ] ]

NextTerminal ==
  \/ \E c \in 1..2 : GetTerminal(c)
  \/ \E c \in 1..2 : WindowExists(c)
  \/ \E c \in 1..2 : CreateDedicatedTerminal(c)
  \/ \E c \in 1..2 : UseTerminal(c)
  \/ CloseWindow

SpecTerminal == InitTerminal /\ [][NextTerminal]_vars

(***************************************************************************)
(* The functions of the server outside ProcessTracker and the idle         *)
(* detector, each applied once to arguments drawn in the initial state.    *)
(***************************************************************************)
\* The most lines of terminal contents drawn.
MaxBufferLines == 3

\* TtyOutputReader.call(linesOfOutput), where retrieveBuffer falls back to the
\* active terminal and returns the trimmed stdout of its osascript query.
\* !linesOfOutput holds of undefined and of 0; slice(-linesOfOutput - 1) starts
\* at index 0 when the array is shorter.
call(stdout, linesOfOutput) ==
  LET buffer == trim(stdout)
      lines == splitLines(buffer)
      from == IF Len(lines) - linesOfOutput.value - 1 < 0 THEN 0
              ELSE Len(lines) - linesOfOutput.value - 1
  IN  IF ~linesOfOutput.defined \/ linesOfOutput.value = 0 THEN buffer
      ELSE joinWith(SubSeq(lines, from + 1, Len(lines)), <<"\n">>)

ApplyCall ==
  /\ applied = "none"
  /\ input.fn = "TtyOutputReader.call"
  /\ result' = call(input.stdout, input.linesOfOutput)
  /\ applied' = input.fn
  /\ UNCHANGED << ttyExists, processes, fgQuery, outcome, walkRoot, walk,
                  detectorVars, psQuery, serverVars, calls, callerVars >>

\* DEFAULT_CLI_OPTIONS: the fields loadEnvironmentConfig reads for the transport.
DEFAULT_CLI_OPTIONS ==
  [ transport |-> <<"s","s","e">>, port |-> [ isNaN |-> FALSE, value |-> 3000 ],
    host |-> <<"l","o","c","a","l","h","o","s","t">>, basePath |-> <<>> ]

\* process.env.NAME || fallback: the fallback for an unset and for an empty
\* variable.
envOr(variable, fallback) ==
  IF variable.defined /\ variable.value # <<>> THEN variable.value ELSE fallback

\* loadEnvironmentConfig() in the environment env. The port is parseInt(.., 10)
\* of the variable: its leading digits, NaN when it starts with none.
loadEnvironmentConfig(env) ==
  [ transport |-> envOr(env.ITERM_MCP_TRANSPORT, DEFAULT_CLI_OPTIONS.transport),
    port |-> IF env.ITERM_MCP_PORT.defined /\ env.ITERM_MCP_PORT.value # <<>>
             THEN LET digits == RunOf(env.ITERM_MCP_PORT.value, 1, Digits)
                  IN  IF digits = <<>> THEN [ isNaN |-> TRUE, value |-> 0 ]
                      ELSE [ isNaN |-> FALSE, value |-> parseInt(digits) ]
             ELSE DEFAULT_CLI_OPTIONS.port,
    host |-> envOr(env.ITERM_MCP_HOST, DEFAULT_CLI_OPTIONS.host),
    basePath |-> envOr(env.ITERM_MCP_BASE_PATH, DEFAULT_CLI_OPTIONS.basePath) ]

\* validateEnvironmentConfig(config): whether it returns (it calls
\* process.exit(1) otherwise).
validateEnvironmentConfig(config) ==
  /\ config.transport \in { <<"s","t","d","i","o">>, <<"s","s","e">> }
  /\ ~config.port.isNaN
  /\ config.port.value >= 1
  /\ config.port.value <= 65535

\* TransportFactory.getTransport(options) for validated options.
getTransport(options) ==
  IF options.transport = <<"s","t","d","i","o">> THEN [ transportType |-> <<"s","t","d","i","o">> ]
  ELSE [ transportType |-> <<"s","s","e">>,
         sse |-> [ endpoint |-> IF StartsWithAt(options.basePath, 1, <<"/">>)
                                THEN options.basePath
                                ELSE <<"/">> \o options.basePath,
                   port |-> options.port.value,
                   host |-> options.host ] ]

\* parseCliOptions() and, when it returns, getTransport(config), as the
\* server's start-up runs them.
ApplyParseCliOptions ==
  /\ applied = "none"
  /\ input.fn = "parseCliOptions"
  /\ LET config == loadEnvironmentConfig(input.env)
     IN  result' = IF validateEnvironmentConfig(config)
                   THEN [ exited |-> FALSE, config |-> config,
                          transportConfig |-> getTransport(config) ]
                   ELSE [ exited |-> TRUE ]
  /\ applied' = input.fn
  /\ UNCHANGED << ttyExists, processes, fgQuery, outcome, walkRoot, walk,
                  detectorVars, psQuery, serverVars, calls, callerVars >>

\* The most characters of a command drawn.
MaxCommandLen == 3

\* Every string of at most n characters of chars.
Strings(chars, n) == UNION { [ 1..k -> chars ] : k \in 0..n }

\* str.replace(/c/g, replacement) for one character c.
RECURSIVE replaceAll(_, _, _)
replaceAll(str, c, replacement) ==
  IF str = <<>> THEN <<>>
  ELSE (IF Head(str) = c THEN replacement ELSE << Head(str) >>)
         \o replaceAll(Tail(str), c, replacement)

escapeAppleScriptStringQuotesFirst(str) ==
  replaceAll(replaceAll(replaceAll(str, "\"", <<"\\","\"">>), "\\", <<"\\","\\">>),
             "\t", <<"\\","t">>)

\* escapeAppleScriptString: backslashes doubled, then double quotes escaped,
\* then tabs replaced by their escape sequence.
escapeAppleScriptString(str) ==
  replaceAll(replaceAll(replaceAll(str, "\\", <<"\\","\\">>), "\"", <<"\\","\"">>),
             "\t", <<"\\","t">>)

\* prepareMultilineCommand: the lines of str as quoted strings with
\* ' & return & ' between them.
prepareMultilineCommand(str) ==
  LET lines == splitLines(str)
  IN  joinWith([ i \in 1..Len(lines) |->
                   <<"\"">> \o escapeAppleScriptString(lines[i]) \o <<"\"">> ],
               <<" ","&"," ","r","e","t","u","r","n"," ","&"," ">>)

\* escapeForAppleScript: the multiline expression for a str with a line feed;
\* otherwise backslashes, double quotes and single quotes escaped and every
\* character outside \x20-\x7E (here the tab) written as \uXXXX.
escapeForAppleScript(str) ==
  IF includes(str, <<"\n">>) THEN prepareMultilineCommand(str)
  ELSE replaceAll(replaceAll(replaceAll(replaceAll(str,
         "\\", <<"\\","\\">>), "\"", <<"\\","\"">>), "'", <<"'","\\","'","'">>), "\t", <<"\\","u","0","0","0","9">>)

\* The operand of 'write text' in the osascript command executeCommand runs.
ApplyEscapeForAppleScript ==
  /\ applied = "none"
  /\ input.fn = "escapeForAppleScript"
  /\ LET escapedCommand == escapeForAppleScript(input.command)
     IN  result' = IF includes(input.command, <<"\n">>)
                   THEN <<"(">> \o escapedCommand \o <<")">>
                   ELSE <<"\"">> \o escapedCommand \o <<"\"">>
  /\ applied' = input.fn
  /\ UNCHANGED << ttyExists, processes, fgQuery, outcome, walkRoot, walk,
                  detectorVars, psQuery, serverVars, calls, callerVars >>

\* The control code send computes for letter, or that it throws 'Invalid
\* control character letter': 29 for ']', 27 for ESCAPE and ESC, and for a
\* string that upper-cases to one of A-Z its charCodeAt(0) - 64.
controlCode(letter) ==
  LET upper == toUpperCase(letter)
  IN  IF upper = <<"]">> THEN [ valid |-> TRUE, controlCode |-> 29 ]
      ELSE IF upper \in { <<"E","S","C","A","P","E">>, <<"E","S","C">> } THEN [ valid |-> TRUE, controlCode |-> 27 ]
      ELSE IF Len(upper) = 1 /\ \E k \in 1..26 : UpperLetters[k] = upper[1]
      THEN [ valid |-> TRUE,
             controlCode |-> (64 + CHOOSE k \in 1..26 : UpperLetters[k] = upper[1]) - 64 ]
      ELSE [ valid |-> FALSE, controlCode |-> 0 ]

\* SendControlCharacter.send(letter): with a terminal manager and a session it
\* tries terminalManager.sendControlCharacter first and on any error falls
\* back to the active terminal. scripts lists the osascript commands run.
ApplySend ==
  /\ applied = "none"
  /\ input.fn = "send"
  /\ LET code == controlCode(input.letter)
         managedScript == [ target |-> targetOf(input.session),
                            controlCode |-> code.controlCode ]
         activeScript == [ target |-> "current session of current window",
                           controlCode |-> code.controlCode ]
     IN  result' =
           IF ~code.valid
           THEN [ kind |-> "throw", message |-> "Invalid control character letter",
                  scripts |-> <<>> ]
           ELSE IF input.managed /\ ~input.managedFails
           THEN [ kind |-> "return", message |-> "", scripts |-> << managedScript >> ]
           ELSE [ kind |-> IF input.activeFails THEN "throw" ELSE "return",
                  message |-> IF input.activeFails
                              THEN "Failed to send control character" ELSE "",
                  scripts |-> IF input.managed THEN << managedScript, activeScript >>
                              ELSE << activeScript >> ]
  /\ applied' = input.fn
  /\ UNCHANGED << ttyExists, processes, fgQuery, outcome, walkRoot, walk,
                  detectorVars, psQuery, serverVars, calls, callerVars >>

\* TerminalManager.readTerminalOutput(session) when its osascript run fails or
\* prints stdout: the trimmed contents, or what it throws (the error as it is
\* for the active ids, wrapped for a window id), with the script it ran.
readTerminalOutput(session, fails, stdout) ==
  [ kind |-> IF fails THEN "throw" ELSE "return",
    value |-> IF fails THEN <<>> ELSE trim(stdout),
    message |-> IF ~fails THEN <<>>
                ELSE IF session \in ActiveIds THEN << ExecError >>
                ELSE << "Failed to read terminal output: ", ExecError >>,
    scripts |-> << [ target |-> targetOf(session), reads |-> "contents" ] >> ]

\* The rest of retrieveBuffer: the contents of the current session of the
\* current window, trimmed; a failure of the osascript run is not caught.
readActiveTerminal(fails, stdout) ==
  [ kind |-> IF fails THEN "throw" ELSE "return",
    value |-> IF fails THEN <<>> ELSE trim(stdout),
    message |-> IF fails THEN << ExecError >> ELSE <<>>,
    scripts |-> << [ target |-> "current session of current window",
                     reads |-> "contents" ] >> ]

\* A retrieveBuffer without the try block around the managed read: what the
\* terminal manager throws is thrown on.
retrieveBufferWithoutFallback(args) ==
  IF args.managed
  THEN readTerminalOutput(args.session, args.managedFails, args.managedStdout)
  ELSE readActiveTerminal(args.activeFails, args.activeStdout)

\* TtyOutputReader.retrieveBuffer: with a terminal manager and a session the
\* managed read, and if that throws (or without them) the read of the active
\* terminal, whose result or error is the result.
retrieveBuffer(args) ==
  LET managedRead == readTerminalOutput(args.session, args.managedFails,
                                        args.managedStdout)
      activeRead == readActiveTerminal(args.activeFails, args.activeStdout)
  IN  IF args.managed /\ managedRead.kind = "return" THEN managedRead
      ELSE IF args.managed
           THEN [ activeRead EXCEPT !.scripts = managedRead.scripts \o @ ]
      ELSE activeRead

ApplyRetrieveBuffer ==
  /\ applied = "none"
  /\ input.fn = "retrieveBuffer"
  /\ result' = retrieveBuffer(input)
  /\ applied' = input.fn
  /\ UNCHANGED << ttyExists, processes, fgQuery, outcome, walkRoot, walk,
                  detectorVars, psQuery, serverVars, calls, callerVars >>

\* The most characters of a letter argument drawn freely.
MaxLetterLen == 2

\* One function and its arguments are drawn. TtyOutputReader.call: terminal
\* contents of up to MaxBufferLines lines as osascript prints them (a line feed
\* ends the output) and a linesOfOutput that is left out or a number.
\* parseCliOptions: each variable unset, empty or set to a value the validation
\* accepts or rejects. escapeForAppleScript: a command of up to MaxCommandLen
\* characters. send: a letter of up to MaxLetterLen characters or a spelling
\* of escape, with or without a managed session (of a window or of the active
\* terminal), each osascript run failing or not. retrieveBuffer: the same
\* choices, with the contents the terminals print.
InitServer ==
  /\ ttyExists = TRUE
  /\ processes = <<>>
  /\ fgQuery = [ failed |-> TRUE, stdout |-> <<>> ]
  /\ applied = "none"
  /\ outcome = Null
  /\ walkRoot = 0
  /\ walk = NoWalk
  /\ pc = "off"
  /\ fd = "undefined"
  /\ belowThresholdTime = 0
  /\ returned = "pending"
  /\ history = <<>>
  /\ psQuery = [ failed |-> TRUE, stdout |-> <<>> ]
  /\ result = [ kind |-> "null" ]
  /\ calls = [ c \in 1..2 |-> NoCall ]
  /\ execPc = "off"
  /\ events = <<>>
  /\ manager = <<>>
  /\ LET Set(values) == { Undefined } \cup { [ defined |-> TRUE, value |-> v ] : v \in values }
     IN  \/ \E lines \in Strings({ <<>>, <<"a">>, <<"b">> }, MaxBufferLines) \ { <<>> },
               n \in Set(0..(MaxBufferLines + 1)) :
               input = [ fn |-> "TtyOutputReader.call",
                         stdout |-> joinWith(lines, <<"\n">>) \o <<"\n">>,
                         linesOfOutput |-> n ]
         \/ \E transport \in Set({ <<>>, <<"s","t","d","i","o">>, <<"s","s","e">>, <<"h","t","t","p">> }),
               port \in Set({ <<>>, <<"8","0","8","0">>, <<"0">>, <<"7","0","0","0","0">>, <<"a","n","y">> }),
               host \in Set({ <<"0",".","0",".","0",".","0">> }),
               basePath \in Set({ <<"m","c","p">>, <<"/","m","c","p">> }) :
               input = [ fn |-> "parseCliOptions",
                         env |-> [ ITERM_MCP_TRANSPORT |-> transport,
                                   ITERM_MCP_PORT |-> port,
                                   ITERM_MCP_HOST |-> host,
                                   ITERM_MCP_BASE_PATH |-> basePath ] ]
         \/ \E command \in Strings({ "a", "\\", "\"", "'", "\t", "\n" }, MaxCommandLen) :
               input = [ fn |-> "escapeForAppleScript", command |-> command ]
         \/ \E letter \in Strings({ "c", "C", "z", "A", "]", "@", "[", "3", "U+0131" },
                                   MaxLetterLen)
                          \cup { <<"e","s","c">>, <<"E","S","C">>, <<"E","s","c">>, <<"e","s","c","a","p","e">>, <<"E","S","C","A","P","E">>,
                                 <<"E","s","C","a","P","e">>, <<"e","s","c","a","p">>, <<"C","T","R","L">> },
               managed \in BOOLEAN, managedFails \in BOOLEAN, activeFails \in BOOLEAN :
               /\ managedFails => managed
               /\ \E session \in { "w1", "active" } :
                    input = [ fn |-> "send", letter |-> letter, managed |-> managed,
                              session |-> IF managed THEN session ELSE "null",
                              managedFails |-> managedFails, activeFails |-> activeFails ]
         \/ \E managed \in BOOLEAN, managedFails \in BOOLEAN, activeFails \in BOOLEAN,
               session \in { "w1", "active", "active-fallback" },
               lines \in Strings({ <<>>, <<"a">>, <<"b">> }, MaxBufferLines) \ { <<>> } :
               /\ managedFails => managed
               /\ input = [ fn |-> "retrieveBuffer", managed |-> managed,
                            session |-> IF managed THEN session ELSE "null",
                            managedFails |-> managedFails, activeFails |-> activeFails,
                            managedStdout |->
                              IF managed /\ session \in ActiveIds
                              THEN joinWith(lines, <<"\n">>) \o <<"\n">>
                              ELSE <<"m","\n">>,
                            activeStdout |-> joinWith(lines, <<"\n">>) \o <<"\n">> ]

NextServer ==
  \/ ApplyCall
  \/ ApplyParseCliOptions
  \/ ApplyEscapeForAppleScript
  \/ ApplySend
  \/ ApplyRetrieveBuffer

SpecServer == InitServer /\ [][NextServer]_vars

(***************************************************************************)
(* TerminalManager.persistTerminalSession and loadPersistedTerminal, with  *)
(* the JSON text of the session file.                                      *)
(***************************************************************************)
\* The longest window id drawn for a persisted session.
MaxIdLen == 3

\* A JavaScript value as JSON.parse returns it: its type tag with the string,
\* the number or the members (key and value, in the order of the text) it has.
JsonValue(type, str, num, members) ==
  [ type |-> type, str |-> str, num |-> num, members |-> members ]

JsonString(s) == JsonValue("string", s, 0, <<>>)

JsonNumber(n) == JsonValue("number", <<>>, n, <<>>)

JsonLiteral(type) == JsonValue(type, <<>>, 0, <<>>)

JsonObject(members) == JsonValue("object", <<>>, 0, members)

\* The decimal digits of a non-negative integer.
RECURSIVE decimal(_)
decimal(n) ==
  IF n < 10 THEN << DigitChar(n) >> ELSE decimal(n \div 10) \o << DigitChar(n % 10) >>

\* A quoting that copies every character as it is.
RECURSIVE quoteRaw(_)
quoteRaw(s) ==
  IF s = <<>> THEN <<>> ELSE << Head(s) >> \o quoteRaw(Tail(s))

\* The characters of a JSON string literal for s, between its quotes: the
\* double quote, the backslash and the control characters are escaped.
RECURSIVE quote(_)
quote(s) ==
  IF s = <<>> THEN <<>>
  ELSE (CASE Head(s) = "\"" -> << "\\", "\"" >>
          [] Head(s) = "\\" -> << "\\", "\\" >>
          [] Head(s) = "\n" -> << "\\", "n" >>
          [] Head(s) = "\t" -> << "\\", "t" >>
          [] OTHER -> << Head(s) >>) \o quote(Tail(s))

\* JSON.stringify of a string, a non-negative integer, null, a boolean or an
\* object of such values.
RECURSIVE stringify(_)
RECURSIVE stringifyMembers(_, _)
stringifyMembers(members, i) ==
  IF i > Len(members) THEN <<>>
  ELSE (IF i > 1 THEN << "," >> ELSE <<>>)
         \o << "\"" >> \o quote(members[i].key) \o << "\"", ":" >>
         \o stringify(members[i].value) \o stringifyMembers(members, i + 1)

stringify(v) ==
  CASE v.type = "string" -> << "\"" >> \o quote(v.str) \o << "\"" >>
    [] v.type = "number" -> decimal(v.num)
    [] v.type = "null" -> <<"n","u","l","l">>
    [] v.type = "true" -> <<"t","r","u","e">>
    [] v.type = "false" -> <<"f","a","l","s","e">>
    [] v.type = "object" -> << "{" >> \o stringifyMembers(v.members, 1) \o << "}" >>

\* A parse that failed (JSON.parse throws a SyntaxError).
NoParse == [ ok |-> FALSE ]

Parsed(v, next) == [ ok |-> TRUE, value |-> v, next |-> next ]

\* The index of the first character of s at or after i that is not JSON
\* white space.
RECURSIVE skipWs(_, _)
skipWs(s, i) ==
  IF i <= Len(s) /\ s[i] \in Whitespace THEN skipWs(s, i + 1) ELSE i

\* The characters of a string literal of s from index i on (just after the
\* opening quote, or further in), with acc read so far.
RECURSIVE parseChars(_, _, _)
parseChars(s, i, acc) ==
  IF i > Len(s) THEN NoParse
  ELSE IF s[i] = "\"" THEN Parsed(JsonString(acc), i + 1)
  ELSE IF s[i] = "\\"
       THEN IF i + 1 > Len(s) THEN NoParse
            ELSE CASE s[i + 1] = "\"" -> parseChars(s, i + 2, Append(acc, "\""))
                   [] s[i + 1] = "\\" -> parseChars(s, i + 2, Append(acc, "\\"))
                   [] s[i + 1] = "/" -> parseChars(s, i + 2, Append(acc, "/"))
                   [] s[i + 1] = "n" -> parseChars(s, i + 2, Append(acc, "\n"))
                   [] s[i + 1] = "t" -> parseChars(s, i + 2, Append(acc, "\t"))
                   [] OTHER -> NoParse
  ELSE IF s[i] \in { "\n", "\t" } THEN NoParse
  ELSE parseChars(s, i + 1, Append(acc, s[i]))

\* The index after the run of digits of s that starts at i.
RECURSIVE afterDigits(_, _)
afterDigits(s, i) ==
  IF i <= Len(s) /\ s[i] \in Digits THEN afterDigits(s, i + 1) ELSE i

\* A number of s at i: an integer without sign, fraction or exponent, and
\* without a leading zero.
parseNumber(s, i) ==
  LET end == afterDigits(s, i)
  IN  IF end = i \/ (s[i] = "0" /\ end > i + 1) THEN NoParse
      ELSE Parsed(JsonNumber(parseInt(SubSeq(s, i, end - 1))), end)

\* A JSON value of s at or after i, and the members of an object of s from i
\* on (after the opening brace or a comma), with acc read so far.
RECURSIVE parseValue(_, _)
RECURSIVE parseMembers(_, _, _)
parseMembers(s, i, acc) ==
  LET k == skipWs(s, i)
  IN  IF k > Len(s) \/ s[k] # "\"" THEN NoParse
      ELSE LET key == parseChars(s, k + 1, <<>>)
           IN  IF ~key.ok THEN NoParse
               ELSE LET c == skipWs(s, key.next)
                    IN  IF c > Len(s) \/ s[c] # ":" THEN NoParse
                        ELSE LET v == parseValue(s, c + 1)
                             IN  IF ~v.ok THEN NoParse
                                 ELSE LET e == skipWs(s, v.next)
                                          all == Append(acc, [ key |-> key.value.str,
                                                               value |-> v.value ])
                                      IN  IF e > Len(s) THEN NoParse
                                          ELSE IF s[e] = "}"
                                               THEN Parsed(JsonObject(all), e + 1)
                                          ELSE IF s[e] = ","
                                               THEN parseMembers(s, e + 1, all)
                                          ELSE NoParse

parseValue(s, at) ==
  LET i == skipWs(s, at)
  IN  IF i > Len(s) THEN NoParse
      ELSE IF s[i] = "\"" THEN parseChars(s, i + 1, <<>>)
      ELSE IF s[i] \in Digits THEN parseNumber(s, i)
      ELSE IF StartsWithAt(s, i, <<"n","u","l","l">>) THEN Parsed(JsonLiteral("null"), i + 4)
      ELSE IF StartsWithAt(s, i, <<"t","r","u","e">>) THEN Parsed(JsonLiteral("true"), i + 4)
      ELSE IF StartsWithAt(s, i, <<"f","a","l","s","e">>) THEN Parsed(JsonLiteral("false"), i + 5)
      ELSE IF StartsWithAt(s, i, <<"[","]">>) THEN Parsed(JsonLiteral("array"), i + 2)
      ELSE IF s[i] = "{"
           THEN LET k == skipWs(s, i + 1)
                IN  IF k <= Len(s) /\ s[k] = "}" THEN Parsed(JsonObject(<<>>), k + 1)
                    ELSE parseMembers(s, i + 1, <<>>)
      ELSE NoParse

\* JSON.parse(text): the value the whole text denotes, for texts of strings,
\* unsigned integers, null, booleans, [] and objects of these.
parse(text) ==
  LET v == parseValue(text, 1)
  IN  IF v.ok /\ skipWs(text, v.next) > Len(text) THEN v ELSE NoParse

\* Whether a JavaScript value counts as true in a condition.
truthy(v) ==
  CASE v.type = "string" -> v.str # <<>>
    [] v.type = "number" -> v.num # 0
    [] v.type \in { "null", "false" } -> FALSE
    [] OTHER -> TRUE

\* typeof v.
typeOf(v) ==
  CASE v.type \in { "string", "number" } -> v.type
    [] v.type \in { "true", "false" } -> "boolean"
    [] OTHER -> "object"

\* key in v, for an object or an empty array v.
hasKey(v, key) == \E i \in 1..Len(v.members) : v.members[i].key = key

\* v[key] of an object that has the key: the member the text gave last.
member(v, key) ==
  v.members[CHOOSE i \in 1..Len(v.members) :
              /\ v.members[i].key = key
              /\ \A j \in (i + 1)..Len(v.members) : v.members[j].key # key].value

\* The session file: whether it exists, whether it can be read, what it holds.
NoFile == [ exists |-> FALSE, readable |-> FALSE, content |-> <<>> ]

FileOf(content) == [ exists |-> TRUE, readable |-> TRUE, content |-> content ]

\* The session object { windowId, createdAt }.
Session(windowId, createdAt) ==
  JsonObject(<< [ key |-> <<"w","i","n","d","o","w","I","d">>, value |-> JsonString(windowId) ],
                [ key |-> <<"c","r","e","a","t","e","d","A","t">>, value |-> JsonNumber(createdAt) ] >>)

\* A persistTerminalSession that writes the session with its window id
\* unescaped.
persistTerminalSessionUnescaped(session, file, writeFails) ==
  IF /\ session.present
     /\ member(session.value, <<"w","i","n","d","o","w","I","d">>).str
          \notin { <<"a","c","t","i","v","e">>, <<"a","c","t","i","v","e","-","f","a","l","l","b","a","c","k">> }
     /\ ~writeFails
  THEN FileOf(<<"{","\"","w","i","n","d","o","w","I","d","\"",":","\"">> \o quoteRaw(member(session.value, <<"w","i","n","d","o","w","I","d">>).str)
                \o <<"\"",",","\"","c","r","e","a","t","e","d","A","t","\"",":">>
                \o decimal(member(session.value, <<"c","r","e","a","t","e","d","A","t">>).num) \o << "}" >>)
  ELSE file

\* persistTerminalSession: the file after it, for the manager's session (if
\* any) and the file before.  A write that throws is logged and leaves the file.
persistTerminalSession(session, file, writeFails) ==
  IF /\ session.present
     /\ member(session.value, <<"w","i","n","d","o","w","I","d">>).str
          \notin { <<"a","c","t","i","v","e">>, <<"a","c","t","i","v","e","-","f","a","l","l","b","a","c","k">> }
     /\ ~writeFails
  THEN FileOf(stringify(session.value))
  ELSE file

\* unlinkSync(TERMINAL_SESSION_FILE) inside its try block: the file is gone,
\* or the deletion throws, which is logged, and the file stays.
unlink(file, unlinkFails) == IF unlinkFails THEN file ELSE NoFile

\* loadPersistedTerminal: the manager's session and the file after it.  It
\* never throws: every statement is inside a try block whose catch clause logs.
loadPersistedTerminal(file, unlinkFails) ==
  IF ~file.exists THEN [ terminalSession |-> Absent, file |-> file ]
  ELSE IF ~file.readable THEN [ terminalSession |-> Absent, file |-> file ]
  ELSE IF file.content = <<>> \/ trim(file.content) = <<>>
       THEN [ terminalSession |-> Absent, file |-> file ]
  ELSE LET parsedData == parse(trim(file.content))
       IN  IF ~parsedData.ok
           THEN [ terminalSession |-> Absent, file |-> unlink(file, unlinkFails) ]
           ELSE IF /\ truthy(parsedData.value)
                   /\ typeOf(parsedData.value) = "object"
                   /\ hasKey(parsedData.value, <<"w","i","n","d","o","w","I","d">>)
                   /\ hasKey(parsedData.value, <<"c","r","e","a","t","e","d","A","t">>)
                   /\ typeOf(member(parsedData.value, <<"w","i","n","d","o","w","I","d">>)) = "string"
                   /\ typeOf(member(parsedData.value, <<"c","r","e","a","t","e","d","A","t">>)) = "number"
                THEN [ terminalSession |-> Present(parsedData.value), file |-> file ]
                ELSE [ terminalSession |-> Absent,
                       file |-> unlink(file, unlinkFails) ]

\* A manager persists its session; a new TerminalManager is constructed.
ApplyPersistThenLoad ==
  /\ applied = "none"
  /\ input.fn = "persistTerminalSession"
  /\ LET written == persistTerminalSession(input.terminalSession, input.file,
                                           input.writeFails)
         loaded == loadPersistedTerminal(written, input.unlinkFails)
     IN  result' = [ written |-> written,
                     terminalSession |-> loaded.terminalSession,
                     file |-> loaded.file ]
  /\ applied' = input.fn
  /\ UNCHANGED << ttyExists, processes, fgQuery, outcome, walkRoot, walk,
                  detectorVars, psQuery, serverVars, calls, callerVars >>

\* A new TerminalManager is constructed over the session file as it is.
ApplyLoadPersistedTerminal ==
  /\ applied = "none"
  /\ input.fn = "loadPersistedTerminal"
  /\ LET loaded == loadPersistedTerminal(input.file, input.unlinkFails)
     IN  result' = [ written |-> input.file,
                     terminalSession |-> loaded.terminalSession,
                     file |-> loaded.file ]
  /\ applied' = input.fn
  /\ UNCHANGED << ttyExists, processes, fgQuery, outcome, walkRoot, walk,
                  detectorVars, psQuery, serverVars, calls, callerVars >>

\* The contents of session files drawn for a construction: sessions as written,
\* with blanks around them, with members in another order or more of them;
\* objects whose windowId or createdAt is missing or of another type; values
\* that are not objects; texts that are not JSON; and no text at all.
FileContents ==
  { <<"{","\"","w","i","n","d","o","w","I","d","\"",":","\"","1","2","\"",",","\"","c",
      "r","e","a","t","e","d","A","t","\"",":","5","}">>,
    <<" ","{","\"","w","i","n","d","o","w","I","d","\"",":"," ","\"","1","2","\"",",",
      " ","\"","c","r","e","a","t","e","d","A","t","\"",":"," ","5","}","\n">>,
    <<"{","\"","c","r","e","a","t","e","d","A","t","\"",":","5",",","\"","e","x","t",
      "r","a","\"",":","t","r","u","e",",","\"","w","i","n","d","o","w","I","d","\"",
      ":","\"","a","\\","\"","b","\"","}">>,
    <<"{","\"","w","i","n","d","o","w","I","d","\"",":","\"","a","c","t","i","v","e",
      "\"",",","\"","c","r","e","a","t","e","d","A","t","\"",":","0","}">>,
    <<"{","\"","w","i","n","d","o","w","I","d","\"",":","1","2",",","\"","c","r","e",
      "a","t","e","d","A","t","\"",":","5","}">>,
    <<"{","\"","w","i","n","d","o","w","I","d","\"",":","\"","1","2","\"",",","\"","c",
      "r","e","a","t","e","d","A","t","\"",":","\"","5","\"","}">>,
    <<"{","\"","w","i","n","d","o","w","I","d","\"",":","\"","1","2","\"",",","\"","c",
      "r","e","a","t","e","d","A","t","\"",":","n","u","l","l","}">>,
    <<"{","\"","w","i","n","d","o","w","I","d","\"",":","{","}",",","\"","c","r","e",
      "a","t","e","d","A","t","\"",":","5","}">>,
    <<"{","\"","w","i","n","d","o","w","I","d","\"",":","\"","1","2","\"","}">>,
    <<"{","\"","c","r","e","a","t","e","d","A","t","\"",":","5","}">>,
    <<"{","}">>,
    <<"n","u","l","l">>,
    <<"5">>,
    <<"\"","1","2","\"">>,
    <<"[","]">>,
    <<"{","\"","w","i","n","d","o","w","I","d","\"",":","\"","1","2","\"",",","\"","c",
      "r","e","a","t","e","d","A","t","\"",":","5">>,
    <<"{","\"","w","i","n","d","o","w","I","d","\"",":","\"","1","2","\"",",","\"","c",
      "r","e","a","t","e","d","A","t","\"",":","5","}","}">>,
    <<"{","w","i","n","d","o","w","I","d",":","\"","1","2","\"",",","c","r","e","a","t",
      "e","d","A","t",":","5","}">>,
    <<"1","2","3","4","5"," ">> \o <<"x">>,
    <<"w","1">>,
    <<>>,
    <<" ","\n">> }

\* Either a session is drawn (a window id of up to MaxIdLen characters as
\* createDedicatedTerminal trims it, or one of the two active ids, or none) to
\* be persisted over a file that is missing or holds an older session; or a
\* session file is drawn: missing, unreadable, or with one of FileContents.
InitSession ==
  /\ ttyExists = TRUE
  /\ processes = <<>>
  /\ fgQuery = [ failed |-> TRUE, stdout |-> <<>> ]
  /\ applied = "none"
  /\ outcome = Null
  /\ walkRoot = 0
  /\ walk = NoWalk
  /\ pc = "off"
  /\ fd = "undefined"
  /\ belowThresholdTime = 0
  /\ returned = "pending"
  /\ history = <<>>
  /\ psQuery = [ failed |-> TRUE, stdout |-> <<>> ]
  /\ result = [ kind |-> "null" ]
  /\ calls = [ c \in 1..2 |-> NoCall ]
  /\ execPc = "off"
  /\ events = <<>>
  /\ manager = <<>>
  /\ \/ \E windowId \in (Strings({ "7", "\"", "\\", "\n" }, MaxIdLen)
                           \cup { <<"a","c","t","i","v","e">>, <<"a","c","t","i","v","e","-","f","a","l","l","b","a","c","k">> }),
          createdAt \in { 0, 42, 1700 },
          older \in { NoFile, FileOf(stringify(Session(<<"9">>, 1))) },
          writeFails \in BOOLEAN :
          /\ windowId # <<>> /\ trim(windowId) = windowId
          /\ input = [ fn |-> "persistTerminalSession",
                       terminalSession |-> Present(Session(windowId, createdAt)),
                       file |-> older, writeFails |-> writeFails,
                       unlinkFails |-> FALSE ]
     \/ \E file \in { NoFile, [ FileOf(<<"{">>) EXCEPT !.readable = FALSE ] }
                      \cup { FileOf(content) : content \in FileContents },
          unlinkFails \in BOOLEAN :
          input = [ fn |-> "loadPersistedTerminal", terminalSession |-> Absent,
                    file |-> file, writeFails |-> FALSE, unlinkFails |-> unlinkFails ]

NextSession == ApplyPersistThenLoad \/ ApplyLoadPersistedTerminal

\* The session file written by one manager and read by the next.
SpecSession == InitSession /\ [][NextSession]_vars

(***************************************************************************)
(* Properties of the idle detector, checked under Spec.                    *)
(***************************************************************************)
Polls == Len(history)

LastObservation == history[Polls]

\* The last three polls all observed an active process with total CPU under 1%.
ThreeLowPollsInARow ==
  /\ Polls >= 3
  /\ \A i \in (Polls - 2)..Polls : history[i] = "low"

\* C1: a poll on which the resolver returns no active process is the last poll of
\* the call, and the call reports idle (resolves to true) on that very poll,
\* whatever the accumulator holds and however many polls came before.
C1_IdleOnNoActiveProcess ==
  \A i \in 1..Polls :
    history[i] = "none" => /\ i = Polls
                           /\ pc = "done"
                           /\ returned = "true"

\* The resolver returns none on the third poll, with 700 ms accumulated by two
\* idle polls, and the call has reported idle.
C1_Witness ==
  /\ history = << "low", "low", "none" >>
  /\ belowThresholdTime = 2 * CadenceMs
  /\ outcome = Null
  /\ pc = "done"
  /\ returned = "true"

\* C2: while every poll finds an active process, the call has reported idle after
\* poll k exactly if polls k-2, k-1 and k all observed total CPU under 1% (no
\* earlier poll can have done so, as the call ends with the report): three polls
\* at 0.5% report idle on the third, not on the first or second.
C2_IdleIffThreeLowPolls ==
  (Polls > 0 /\ \A i \in 1..Polls : history[i] # "none")
    => /\ (pc = "done") <=> ThreeLowPollsInARow
       /\ (pc = "done") => returned = "true"
       /\ (pc # "done") => returned = "pending"

\* Three polls that each observe a total of 0.5% have ended the call as idle.
C2_Witness ==
  /\ history = << "low", "low", "low" >>
  /\ outcome.kind = "value"
  /\ outcome.metrics.totalCPUPercent = 5
  /\ belowThresholdTime = 3 * CadenceMs
  /\ pc = "done"
  /\ returned = "true"

\* The observations of the CPU sequence 0.5, 0.5, 5, 0.5, 0.5, 0.5 (percent).
ResetExample == << "low", "low", "high", "low", "low", "low" >>

\* C3: a poll that observes total CPU of 1% or more leaves the accumulator at 0
\* and the call polling; for the sequence ResetExample the call reports idle on
\* the 6th poll and on none before.
C3_BusyPollResets ==
  /\ (Polls > 0 /\ LastObservation = "high")
       => /\ belowThresholdTime = 0
          /\ pc \in { "sleep", "poll" }
          /\ returned = "pending"
  /\ (Polls > 0 /\ Polls <= Len(ResetExample) /\ history = SubSeq(ResetExample, 1, Polls))
       => ((pc = "done") <=> (Polls = Len(ResetExample)))

\* The sequence ResetExample has been observed in full, the last poll at 0.5%,
\* and the call has reported idle.
C3_Witness ==
  /\ history = ResetExample
  /\ outcome.kind = "value"
  /\ outcome.metrics.totalCPUPercent = 5
  /\ belowThresholdTime = 3 * CadenceMs
  /\ pc = "done"
  /\ returned = "true"

\* C4: the call fails open.  It never rejects, whatever was raised; when the
\* device cannot be opened it resolves to true without a single poll and with no
\* descriptor to close; and whenever it is over it has resolved to true.
C4_FailOpen ==
  /\ returned # "rejected"
  /\ (pc = "done" /\ fd = "undefined") => (returned = "true" /\ Polls = 0)
  /\ (pc = "done") => returned = "true"

\* openSync threw: the call is over, idle is reported, and no poll was made.
C4_Witness ==
  /\ pc = "done"
  /\ fd = "undefined"
  /\ Polls = 0
  /\ returned = "true"

(***************************************************************************)
(* Properties of the tracker, checked under SpecTracker.                   *)
(***************************************************************************)
\* A getActiveProcess call has returned an ActiveProcess.
Resolved == applied = "getActiveProcess" /\ outcome.kind = "value"

\* The rows (indices) of the snapshot whose chain of parent links leads to a row
\* of S, with S: the least set that holds S and every child of a member.
RECURSIVE WithDescendants(_)
WithDescendants(S) ==
  LET children == { i \in 1..Len(processes) :
                      \E j \in S : processes[i].ppid = processes[j].pid }
  IN  IF children \subseteq S THEN S ELSE WithDescendants(S \cup children)

\* The rows of the active process and of all its descendants.
Related == WithDescendants({ i \in 1..Len(processes) : processes[i].pid = outcome.pid })

RECURSIVE SumCpu(_)
SumCpu(S) ==
  IF S = {} THEN 0
  ELSE LET i == CHOOSE i \in S : TRUE
       IN  processes[i].cpuPercent + SumCpu(S \ {i})

RECURSIVE SumKb(_)
SumKb(S) ==
  IF S = {} THEN 0
  ELSE LET i == CHOOSE i \in S : TRUE
       IN  parseInt(processes[i].memory) + SumKb(S \ {i})

\* What the foreground-group query printed is the group id g padded by ps.
Prints(q, g) == ~q.failed /\ q.stdout = << " " >> \o g \o << "\n" >>

\* C5: getActiveProcess completes with null or an ActiveProcess on every input,
\* never by throwing; and it is null when the device path does not exist, when
\* the snapshot is empty, when the foreground-group query fails or prints
\* nothing, and when no process of the snapshot has the group id it printed.
C5_NullNeverThrows ==
  applied = "getActiveProcess"
    => /\ outcome.kind \in { "null", "value" }
       /\ ~ttyExists => outcome = Null
       /\ processes = <<>> => outcome = Null
       /\ (fgQuery.failed \/ fgQuery.stdout = <<>>) => outcome = Null
       /\ (\A i \in 1..Len(processes) : ~Prints(fgQuery, processes[i].pgid))
            => outcome = Null

\* The device exists and the try block threw all the same (the metrics of a
\* snapshot whose parent links form a cycle): the call has returned null.
C5_Witness ==
  /\ applied = "getActiveProcess"
  /\ ttyExists
  /\ \E i \in 1..Len(processes) : Prints(fgQuery, processes[i].pgid)
  /\ getActiveProcessTry(ttyExists, processes, fgQuery).kind = "throw"
  /\ outcome = Null

\* C6: for every process list and root R, getAllDescendants gives a collection
\* that holds neither R nor any pid twice, self links and cycles included.
C6_NoRootNoDuplicates ==
  applied = "getAllDescendants"
    => /\ ~walk.threw
       /\ \A k \in 1..Len(walk.descendants) :
            walk.descendants[k] # processes[walkRoot].pid
       /\ \A k, l \in 1..Len(walk.descendants) :
            walk.descendants[k] = walk.descendants[l] => k = l

\* C7: the descendant walk ends for every process list, having visited each pid
\* at most once: it never recurses until the stack is exhausted.
C7_WalkTerminates ==
  applied = "getAllDescendants"
    => /\ ~walk.threw
       /\ Len(walk.descendants) <= Len(processes)

\* C8: in the metrics of an ActiveProcess, totalCPUPercent is the sum of
\* cpuPercent over the active process and its descendants, each counted once, so
\* it is at least the largest of them, and totalMemoryMB is the sum of their
\* memory in KB divided by 1024.
C8_TotalsAreSums ==
  Resolved
    => /\ outcome.metrics.totalCPUPercent = SumCpu(Related)
       /\ \A i \in Related : outcome.metrics.totalCPUPercent >= processes[i].cpuPercent
       /\ FracEq(outcome.metrics.totalMemoryMB, Frac(SumKb(Related), 1024))

\* An active process at 0% CPU with two descendants, one of them busy: its
\* memory is in the total all the same.
C8_Witness ==
  /\ Resolved
  /\ processes[outcome.pid].cpuPercent = 0
  /\ Cardinality(Related) = 3
  /\ outcome.metrics.totalCPUPercent > 50
  /\ outcome.metrics.totalMemoryMB.num * 1024
       = SumKb(Related) * outcome.metrics.totalMemoryMB.den
  /\ SumKb(Related) > parseInt(processes[outcome.pid].memory)

\* The pids of the breakdown.
BreakdownPids ==
  { outcome.metrics.processBreakdown[k].pid :
      k \in 1..Len(outcome.metrics.processBreakdown) }

\* C9: the breakdown holds exactly the processes among the active process and its
\* descendants with CPU over 0.1% or memory over 5 MB (5120 KB), each once, and
\* is ordered by non-increasing cpuPercent.
C9_BreakdownFilteredAndSorted ==
  Resolved
    => LET b == outcome.metrics.processBreakdown
       IN  /\ BreakdownPids =
                { processes[i].pid : i \in
                    { j \in Related : \/ processes[j].cpuPercent > 1
                                      \/ parseInt(processes[j].memory) > 5120 } }
           /\ Cardinality(BreakdownPids) = Len(b)
           /\ \A k \in 1..Len(b) :
                /\ b[k].cpuPercent = processes[b[k].pid].cpuPercent
                /\ b[k].memory = processes[b[k].pid].memory
           /\ \A k \in 1..(Len(b) - 1) : b[k].cpuPercent >= b[k + 1].cpuPercent

\* A process at exactly 0.1% and 5120 KB is among the related ones and not in the
\* breakdown, which holds the two others with the busier one moved to the front
\* of the active process.
C9_Witness ==
  /\ Resolved
  /\ Cardinality(Related) = 3
  /\ \E i \in Related : /\ processes[i].cpuPercent = 1
                        /\ parseInt(processes[i].memory) = 5120
                        /\ processes[i].pid \notin BreakdownPids
  /\ Len(outcome.metrics.processBreakdown) = 2
  /\ outcome.metrics.processBreakdown[2].pid = outcome.pid
  /\ outcome.metrics.processBreakdown[1].cpuPercent
       > outcome.metrics.processBreakdown[2].cpuPercent

\* C10 as stated: the totals are at least the cpuPercent and the memory value of
\* every breakdown entry.
C10_TotalsBoundEntryValues ==
  Resolved
    => \A k \in 1..Len(outcome.metrics.processBreakdown) :
         LET e == outcome.metrics.processBreakdown[k]
         IN  /\ outcome.metrics.totalCPUPercent >= e.cpuPercent
             /\ FracLeq(Frac(parseInt(e.memory), 1), outcome.metrics.totalMemoryMB)

\* C10 as amended: total CPU is at least the cpuPercent of every breakdown entry,
\* and total memory, which is in MB, is at least the memory of every breakdown
\* entry converted to MB (the entry holds the KB string of ps; KB / 1024).
C10_TotalsBoundEntries ==
  Resolved
    => \A k \in 1..Len(outcome.metrics.processBreakdown) :
         LET e == outcome.metrics.processBreakdown[k]
         IN  /\ outcome.metrics.totalCPUPercent >= e.cpuPercent
             /\ FracLeq(Frac(parseInt(e.memory), 1024), outcome.metrics.totalMemoryMB)

\* A breakdown of three entries whose last entry is not the process summed last,
\* under totals that exceed every entry.
C10_Witness ==
  /\ Resolved
  /\ Len(outcome.metrics.processBreakdown) = 3
  /\ \A k \in 1..3 :
       /\ outcome.metrics.totalCPUPercent > outcome.metrics.processBreakdown[k].cpuPercent
       /\ ~FracLeq(outcome.metrics.totalMemoryMB,
                   Frac(parseInt(outcome.metrics.processBreakdown[k].memory), 1024))

(***************************************************************************)
(* Properties of the interest scorer, checked under SpecScorer.            *)
(***************************************************************************)
\* C11: for every non-empty candidate list, findMostInterestingProcess returns a
\* member of the list whose score is maximal, namely the first member with the
\* maximal score; so the winner is a function of the list and its order.
C11_FirstOfTheBest ==
  applied = "findMostInterestingProcess"
    => \E w \in 1..Len(processes) :
         /\ result.process = processes[w]
         /\ \A i \in 1..Len(processes) :
              calculateProcessScore(processes[i]) <= calculateProcessScore(processes[w])
         /\ \A i \in 1..(w - 1) :
              calculateProcessScore(processes[i]) < calculateProcessScore(processes[w])

\* Two different candidates tie for the maximal score, and the first of them
\* has been returned.
C11_Witness ==
  /\ applied = "findMostInterestingProcess"
  /\ Len(processes) = 2
  /\ processes[1].cpuPercent # processes[2].cpuPercent
  /\ processes[1].command # processes[2].command
  /\ calculateProcessScore(processes[1]) = calculateProcessScore(processes[2])
  /\ result.process = processes[1]

\* The bash candidate and the python candidate of the scorer example.
IsBashExample(p) ==
  /\ p.command = <<"/","b","i","n","/","b","a","s","h">>
  /\ p.cpuPercent = 0
  /\ p.state = "S"

IsPythonExample(p) ==
  /\ p.command = <<"p","y","t","h","o","n">>
  /\ p.cpuPercent = 120
  /\ p.state = "R"

\* C12: a score is the sum of 2 for state R, 1 for S and 0 otherwise; of
\* min(cpuPercent / 10, 5), which is exactly 5 from 50% CPU on; of -1 for a shell
\* name; of +3 for a REPL name; and of +2 for brew, npm or yarn with CPU > 0 (no
\* bonus at exactly 0).  Of a bash at 0% in state S and a python at 12% in state
\* R, python is selected in either order.  (Scores in hundredths of a point.)
C12_ScoreComponents ==
  /\ applied = "calculateProcessScore"
       => LET p == processes[result.index]
              shortName == getProcessName(p.command)
              statePoints == CASE p.state = "R" -> 200 [] p.state = "S" -> 100
                               [] OTHER -> 0
              cpuPoints == IF p.cpuPercent >= 500 THEN 500 ELSE p.cpuPercent
              shellPoints == IF shortName \in shellNames THEN -100 ELSE 0
              replPoints == IF shortName \in replNames THEN 300 ELSE 0
              packagePoints ==
                IF shortName \in { <<"b","r","e","w">>, <<"n","p","m">>,
                                   <<"y","a","r","n">> } /\ p.cpuPercent > 0
                THEN 200 ELSE 0
          IN  result.score
                = statePoints + cpuPoints + shellPoints + replPoints + packagePoints
  /\ (/\ applied = "findMostInterestingProcess"
      /\ Len(processes) = 2
      /\ \E i, j \in 1..2 : IsBashExample(processes[i]) /\ IsPythonExample(processes[j]))
       => IsPythonExample(result.process)

\* The example with bash first: python, the second candidate, has been selected.
C12_Witness ==
  /\ applied = "findMostInterestingProcess"
  /\ Len(processes) = 2
  /\ IsBashExample(processes[1])
  /\ IsPythonExample(processes[2])
  /\ calculateProcessScore(processes[1]) = 0
  /\ calculateProcessScore(processes[2]) = 620
  /\ result.process = processes[2]


(***************************************************************************)
(* Properties of the environment classifier, checked under SpecClassifier. *)
(***************************************************************************)
\* detectEnvironment has been applied to a process running this command.
Classified == applied = "detectEnvironment"

ClassifiedCommand == processes[1].command

\* s ends with t.
EndsWith(s, t) ==
  /\ Len(t) <= Len(s)
  /\ SubSeq(s, Len(s) - Len(t) + 1, Len(s)) = t

\* The command of the classifier example, and the same run with the path of the
\* application's config/environment on its command line.
RailsExample ==
  <<"r","u","b","y"," ","b","i","n","/","r","a","i","l","s"," ","c","o","n","s","o",
      "l","e"," ","R","A","I","L","S","_","E","N","V","=","s","t","a","g","i","n","g">>

RailsExampleWithPath ==
  <<"r","u","b","y"," ","-","r"," ","/","a","p","p","s","/","m","y","a","p","p","/",
      "c","o","n","f","i","g","/","e","n","v","i","r","o","n","m","e","n","t"," ","b",
      "i","n","/","r","a","i","l","s"," ","c","o","n","s","o","l","e"," ","R","A","I",
      "L","S","_","E","N","V","=","s","t","a","g","i","n","g">>

\* C13: the example command is classified as environment "Rails Console" with a
\* context for staging, "myapp (staging)" when the path of the application is
\* known; in general the value of the RAILS_ENV=<value> token of the command is
\* the environment part of the context, and "development" is used only when the
\* command has no such token.
C13_RailsEnvFromToken ==
  /\ (Classified /\ ClassifiedCommand = RailsExample)
       => /\ result.environment = Present(<<"R","a","i","l","s"," ","C","o","n","s","o","l","e">>)
          /\ result.applicationContext.present
          /\ EndsWith(result.applicationContext.value, <<" ","(","s","t","a","g","i","n","g",")">>)
  /\ (Classified /\ ClassifiedCommand = RailsExampleWithPath)
       => /\ result.environment = Present(<<"R","a","i","l","s"," ","C","o","n","s","o","l","e">>)
          /\ result.applicationContext = Present(<<"m","y","a","p","p"," ","(","s","t","a","g","i","n","g",")">>)
  /\ (Classified /\ result.applicationContext.present)
       => LET token == matchRailsEnv(ClassifiedCommand)
          IN  IF token.matched
              THEN EndsWith(result.applicationContext.value,
                            <<" ","(">> \o token.group1 \o <<")">>)
              ELSE EndsWith(result.applicationContext.value,
                            <<" ","(","d","e","v","e","l","o","p","m","e","n","t",")">>)

\* The Rails rule of the classifier matches the command.
RailsRuleMatches ==
  \/ includes(toLowerCase(ClassifiedCommand), <<"r","a","i","l","s"," ","c","o","n","s","o","l","e">>)
  \/ /\ toLowerCase(getProcessName(ClassifiedCommand)) = <<"r","u","b","y">>
     /\ includes(toLowerCase(ClassifiedCommand), <<"r","a","i","l","s"," ","s","e","r","v","e","r">>)

\* C14: the rules are checked in order and the first match wins.  A command
\* containing "rails console" is labelled "Rails Console", also when its short
\* name is a REPL name or a package manager; a REPL short name is never labelled
\* as a package manager; a short name of brew, npm, yarn or pip that the Rails
\* rule does not match gives "<Capitalized> Package Manager" and no application
\* context; when no rule matches, environment and applicationContext are both
\* absent; and applicationContext is present only under the Rails rule.
C14_FirstMatchWins ==
  Classified
    => LET shortName == getProcessName(ClassifiedCommand)
           name == toLowerCase(shortName)
       IN  /\ includes(ClassifiedCommand, <<"r","a","i","l","s"," ","c","o","n","s","o","l","e">>)
                => result.environment = Present(<<"R","a","i","l","s"," ","C","o","n","s","o","l","e">>)
           /\ (shortName \in replNames /\ result.environment.present)
                => ~EndsWith(result.environment.value, <<" ","P","a","c","k","a","g","e"," ","M","a","n","a","g","e","r">>)
           /\ (shortName \in labelledPackageManagers /\ ~RailsRuleMatches)
                => /\ result.environment
                        = Present(<<toUpperChar(Head(shortName))>> \o Tail(shortName)
                                    \o <<" ","P","a","c","k","a","g","e"," ","M","a","n","a","g","e","r">>)
                   /\ ~result.applicationContext.present
           /\ (/\ ~RailsRuleMatches
               /\ name \notin replNames
               /\ name \notin labelledPackageManagers)
                => /\ ~result.environment.present
                   /\ ~result.applicationContext.present
           /\ result.applicationContext.present
                => /\ RailsRuleMatches
                   /\ result.environment = Present(<<"R","a","i","l","s"," ","C","o","n","s","o","l","e">>)

\* A command whose short name is a REPL name (node, say) and that contains "rails
\* console" has been labelled "Rails Console".
C14_Witness ==
  /\ Classified
  /\ getProcessName(ClassifiedCommand) = <<"n","o","d","e">>
  /\ includes(ClassifiedCommand, <<"r","a","i","l","s"," ","c","o","n","s","o","l","e">>)
  /\ result.environment = Present(<<"R","a","i","l","s"," ","C","o","n","s","o","l","e">>)
  /\ result.applicationContext.present

\* C15: for every short name of the REPL set that the Rails rule does not match,
\* the environment is present and not empty: the mapped display name for irb,
\* pry, node, python and ipython, "<NAME-UPPERCASED> REPL" for every other name
\* of the set.  So every process with the scorer's REPL bonus has a REPL label.
C15_EveryReplNameLabelled ==
  (Classified /\ getProcessName(ClassifiedCommand) \in replNames /\ ~RailsRuleMatches)
    => LET shortName == getProcessName(ClassifiedCommand)
       IN  /\ result.environment.present
           /\ result.environment.value # <<>>
           /\ result.environment.value =
                CASE shortName = <<"i","r","b">> -> <<"R","u","b","y"," ","I","R","B">>
                  [] shortName = <<"p","r","y">> -> <<"P","r","y"," ","C","o","n","s","o","l","e">>
                  [] shortName = <<"n","o","d","e">> -> <<"N","o","d","e",".","j","s"," ","R","E","P","L">>
                  [] shortName = <<"p","y","t","h","o","n">> -> <<"P","y","t","h","o","n"," ","R","E","P","L">>
                  [] shortName = <<"i","p","y","t","h","o","n">> -> <<"I","P","y","t","h","o","n"," ","C","o","n","s","o","l","e">>
                  [] OTHER -> toUpperCase(shortName) \o <<" ","R","E","P","L">>


(***************************************************************************)
(* Properties of the snapshotter, checked under SpecSnapshot.              *)
(***************************************************************************)
Snapshotted == applied = "getProcessesForTTY"

\* The rows of the process table that ps printed with at least 9 fields.
WellFormedRows == SelectSeq(psQuery.table, LAMBDA r : r.shape \in { "word", "args" })

\* C16: getProcessesForTTY skips the header line and returns one record for each
\* remaining row of at least 9 whitespace-separated fields, none for a row with
\* fewer, in the order of the rows, with fields 9.. joined (by single blanks)
\* into the command; an output of fewer than two lines and a failed query give
\* the empty list, not an error.
C16_OneRecordPerWellFormedRow ==
  Snapshotted
    => /\ psQuery.failed => processes = <<>>
       /\ (psQuery.stdout = <<>> \/ psQuery.stdout = PsHeader \o << "\n" >>)
            => processes = <<>>
       /\ Len(processes) = Len(WellFormedRows)
       /\ \A k \in 1..Len(processes) :
            /\ processes[k].pid = << DigitChar(WellFormedRows[k].pid) >>
            /\ processes[k].ppid = << DigitChar(WellFormedRows[k].ppid) >>
            /\ processes[k].pgid = << "2" >>
            /\ processes[k].state = "S"
            /\ processes[k].cpuPercent = 5
            /\ processes[k].memory = <<"5","1","2","1">>
            /\ processes[k].command =
                 IF WellFormedRows[k].shape = "word" THEN <<"s","h">>
                 ELSE <<"n","p","m"," ","r","u","n"," ","x">>

\* Of three rows the second lacks its command: the first and the third are
\* returned, in this order, the third with its arguments joined by single blanks.
C16_Witness ==
  /\ Snapshotted
  /\ Len(psQuery.table) = 3
  /\ psQuery.table[1].shape = "word"
  /\ psQuery.table[2].shape = "cut"
  /\ psQuery.table[3].shape = "args"
  /\ Len(processes) = 2
  /\ processes[1].pid = << "1" >>
  /\ processes[2].pid = << "3" >>
  /\ processes[2].command = <<"n","p","m"," ","r","u","n"," ","x">>

\* The records (indices) that hold record i in their children list.
HoldersOf(i) ==
  { j \in 1..Len(processes) :
      \E k \in 1..Len(processes[j].children) : processes[j].children[k] = i }

\* C17: in the linked snapshot, a record is in the children list of the record
\* whose pid is its ppid, once, when that record is in the snapshot, and in no
\* other; a record whose parent id is not in the snapshot is in no children
\* list; and every record of the snapshot is in the returned list exactly once.
C17_ChildrenOfOneParent ==
  Snapshotted
    => /\ \A i \in 1..Len(processes) :
            /\ Cardinality(HoldersOf(i)) <= 1
            /\ HoldersOf(i)
                 = { j \in 1..Len(processes) : processes[j].pid = processes[i].ppid }
            /\ \A j \in HoldersOf(i) :
                 Cardinality({ k \in 1..Len(processes[j].children) :
                                 processes[j].children[k] = i }) = 1
       /\ \A i, j \in 1..Len(processes) : processes[i].pid = processes[j].pid => i = j
       /\ \A k \in 1..Len(WellFormedRows) :
            \E i \in 1..Len(processes) :
              processes[i].pid = << DigitChar(WellFormedRows[k].pid) >>

\* The first record's parent is the row that was left out, so it is a root in no
\* children list; the other record is its one child.
C17_Witness ==
  /\ Snapshotted
  /\ Len(psQuery.table) = 3
  /\ psQuery.table[2].shape = "cut"
  /\ Len(processes) = 2
  /\ processes[1].ppid = << "2" >>
  /\ HoldersOf(1) = {}
  /\ processes[2].ppid = << "1" >>
  /\ HoldersOf(2) = { 1 }
  /\ processes[1].children = << 2 >>
  /\ processes[2].children = <<>>


(***************************************************************************)
(* Properties of the command chain, checked under SpecChain.               *)
(***************************************************************************)
Chained == applied = "buildCommandChain"

\* The row of the snapshot that is the parent of row i, 0 when there is none.
ParentRow(i) ==
  IF \E j \in 1..Len(processes) : processes[j].pid = processes[i].ppid
  THEN CHOOSE j \in 1..Len(processes) : processes[j].pid = processes[i].ppid
  ELSE 0

\* The row reached from row i by d parent links inside the snapshot, 0 when the
\* links leave the snapshot before.
RECURSIVE AncestorRow(_, _)
AncestorRow(i, d) ==
  IF d = 0 \/ i = 0 THEN i ELSE AncestorRow(ParentRow(i), d - 1)

IsChainEntryOf(entry, p) ==
  LET name == getProcessName(p.command)
  IN  IF name = <<"r","u","b","y">>
         /\ includes(p.command, <<"r","a","i","l","s"," ","c","o","n","s","o","l","e">>)
      THEN entry = <<"r","a","i","l","s"," ","c","o","n","s","o","l","e">>
      ELSE IF name = <<"b","r","e","w">>
              /\ includes(p.command, <<"i","n","s","t","a","l","l">>)
      THEN /\ StartsWithAt(entry, 1, <<"b","r","e","w"," ","i","n","s","t","a","l","l"," ">>)
           /\ EndsWith(p.command, SubSeq(entry, 14, Len(entry)))
      ELSE entry = name

RECURSIVE AloneFrom(_, _, _)
AloneFrom(obs, i, bt) ==
  IF i > Len(obs) THEN [ returns |-> FALSE, bt |-> bt ]
  ELSE LET r == loopBody(bt, obs[i])
       IN  IF r.returns THEN [ returns |-> i = Len(obs), bt |-> r.bt ]
           ELSE AloneFrom(obs, i + 1, r.bt)

\* C19: two calls for different devices share no mutable state.  However their
\* polls interleave, the accumulator of each call and whether and what it has
\* resolved are what that call alone gives on the resolver results it has seen.
C19_CallsAreIndependent ==
  \A c \in 1..2 :
    calls[c].fd # "undefined"
      => LET alone == AloneFrom(calls[c].history, 1, 0)
         IN  /\ calls[c].belowThresholdTime = alone.bt
             /\ (calls[c].pc = "done") <=> alone.returns
             /\ calls[c].returned = IF alone.returns THEN "true" ELSE "pending"

\* Both calls are between two polls: the first has accumulated 700 ms over two
\* idle polls, while a busy poll has put the second back to 0 after an idle one.
C19_Witness ==
  /\ calls[1].pc = "sleep"
  /\ Len(calls[1].history) = 2
  /\ \A i \in 1..2 : Observation(calls[1].history[i]) = "low"
  /\ calls[1].belowThresholdTime = 2 * CadenceMs
  /\ calls[2].pc = "sleep"
  /\ Len(calls[2].history) = 2
  /\ Observation(calls[2].history[1]) = "low"
  /\ Observation(calls[2].history[2]) = "high"
  /\ calls[2].belowThresholdTime = 0


\* C30: the descriptor isWaitingForUserInput opened is closed exactly once on
\* every path by which the call returns; when the open failed no close is
\* attempted; while the call polls or sleeps the descriptor is open.
C30_ClosedOnceOnReturn ==
  /\ fd # "bad close"
  /\ pc \in { "poll", "sleep" } => fd = "open"
  /\ pc = "done" => fd = (IF Polls = 0 THEN "undefined" ELSE "closed")

\* A call that polled a busy process and then found none has returned with
\* the descriptor closed.
C30_Witness ==
  /\ pc = "done"
  /\ fd = "closed"
  /\ history = << "high", "none" >>
  /\ returned = "true"

(***************************************************************************)
(* Properties of executeCommand, checked under SpecExec.                   *)
(***************************************************************************)
\* What an executeCommand call that reads the buffer has done, in order.
ReadOrder == << "written", "notProcessing", "ttyPath", "idle", "retrieveBuffer" >>

\* C20: in executeCommand the final buffer is read only after the command text
\* was written, then iTerm reported that it is not processing, then the tty path
\* was retrieved, then the idle detector reported idle for it: what a call has
\* done is always an initial part of this order, a call that is done has done
\* all of it, and while the idle detector has not answered retrieveBuffer has not
\* been invoked.
C20_ReadAfterIdle ==
  /\ Len(events) <= Len(ReadOrder)
  /\ events = SubSeq(ReadOrder, 1, Len(events))
  /\ execPc \in { "retrieveBuffer", "settle" } => events = SubSeq(ReadOrder, 1, 4)
  /\ execPc = "done" => events = ReadOrder
  /\ pc # "off" => /\ execPc = "isWaitingForUserInput"
                   /\ events = SubSeq(ReadOrder, 1, 3)

\* A call has returned the buffer, having gone through every step.
C20_Witness ==
  /\ execPc = "done"
  /\ events = ReadOrder
  /\ pc = "off"

\* How often executeCommand has called isWaitingForUserInput: once when the
\* tty path was retrieved and once more after every run of the loop body.
Invocations ==
  Cardinality({ i \in 1..Len(events) : events[i] \in { "ttyPath", "sleep100" } })

\* C29: isWaitingForUserInput never resolves to false and never rejects, and
\* when it has settled it has resolved to true; the body of the caller's loop
\* while (await isWaitingForUserInput(ttyPath) === false) is never executed;
\* and a command that went on past the loop, or is waiting for the detector,
\* has invoked the detector exactly once.
C29_TrueOnEveryPath ==
  /\ returned \in { "pending", "true" }
  /\ pc = "done" => returned = "true"
  /\ \A i \in 1..Len(events) : events[i] # "sleep100"
  /\ (pc # "off" \/ execPc \in { "settle", "retrieveBuffer", "done" }) => Invocations = 1
  /\ execPc = "failed" => Invocations <= 1

\* The open of the tty threw, the call resolved to true all the same, and it
\* is the only call the command has made.
C29_Witness ==
  /\ execPc = "isWaitingForUserInput"
  /\ pc = "done"
  /\ fd = "undefined"
  /\ returned = "true"
  /\ events = SubSeq(ReadOrder, 1, 3)


(***************************************************************************)
(* Properties of the unbounded detector loop, checked under SpecLoop.      *)
(***************************************************************************)
\* The call has polled and the last poll found no active process.
LastPollFoundNone == history # <<>> /\ history[Len(history)] = "none"

\* The call has polled three times or more and the last three polls were under 1%.
LastThreePollsLow == Len(history) = 3 /\ \A i \in 1..3 : history[i] = "low"

\* C21: the loop has no cap on its iterations.  A call that opened its device
\* returns only on a poll that finds no active process or that is the third in a
\* row under 1%, and on such a poll it does return; as long as every poll finds
\* an active process and one of every three polls is at 1% or more, the call is
\* not over, and it polls again and again, however many polls it has made.
C21_NoIterationCap ==
  /\ [](fd # "undefined" =>
          ((pc = "done") <=> (LastPollFoundNone \/ LastThreePollsLow)))
  /\ [](pc \in { "poll", "sleep" } => returned = "pending")
  /\ []<>(pc = "poll") \/ <>(pc = "done")

\* The call is still polling after a busy poll that followed two idle ones in
\* the last three polls it has made.
C21_Witness ==
  /\ pc = "poll"
  /\ fd = "open"
  /\ history = << "low", "low", "high" >>
  /\ belowThresholdTime = 0
  /\ returned = "pending"


(***************************************************************************)
(* Properties of TtyOutputReader.call, checked under SpecServer.           *)
(***************************************************************************)
\* C22: call(n) for n >= 1 returns exactly the last n lines of the terminal
\* buffer (the whole buffer when it has fewer than n lines); call with no n or
\* with n = 0 returns the whole buffer.
C22_LastLinesRequested ==
  applied = "TtyOutputReader.call" =>
    LET buffer == trim(input.stdout)
        lines == splitLines(buffer)
        n == input.linesOfOutput
    IN  IF ~n.defined \/ n.value = 0 THEN result = buffer
        ELSE IF Len(lines) <= n.value THEN result = buffer
        ELSE result = joinWith(SubSeq(lines, Len(lines) - n.value + 1, Len(lines)), <<"\n">>)


(***************************************************************************)
(* Properties of the transport configuration, checked under SpecServer.    *)
(***************************************************************************)
\* C23: when ITERM_MCP_TRANSPORT is not set the transport is stdio, and
\* TransportFactory.getTransport returns the stdio configuration.
C23_StdioByDefault ==
  (applied = "parseCliOptions" /\ ~input.env.ITERM_MCP_TRANSPORT.defined /\ ~result.exited) =>
    /\ result.config.transport = <<"s","t","d","i","o">>
    /\ result.transportConfig = [ transportType |-> <<"s","t","d","i","o">> ]


(***************************************************************************)
(* Properties of TerminalManager, checked under SpecTerminal.              *)
(***************************************************************************)
Dedicated == manager.options.createDedicatedTerminal

\* C24: with dedicated terminals enabled, a getTerminal call that found a
\* session stored whose window still existed returned that session and
\* created no window; every other call created a new window and returned it.
C24_CreateOnlyIfNoneExists ==
  \A c \in 1..2 :
    LET gt == manager.calls[c]
    IN  (Dedicated /\ gt.pc = "done") =>
          IF gt.stored # "null" /\ gt.existed
          THEN gt.returned = gt.stored /\ gt.made = "none"
          ELSE gt.made # "none" /\ gt.returned = gt.made

\* C25: with dedicated terminals enabled every session getTerminal returned
\* identifies a dedicated window, and no operation on such a session addresses
\* the current session of the current window.
C25_NeverTheActiveTerminal ==
  Dedicated =>
    /\ \A c \in 1..2 :
         manager.calls[c].pc = "done" => manager.calls[c].returned \notin ActiveIds
    /\ manager.lastUse.target # "current session of current window"

\* C26: with dedicated terminals enabled and no window ever closed, the
\* getTerminal calls made, overlapping or not, have created at most one window
\* and have all returned the same window id.
C26_SinglePersistentTerminal ==
  (Dedicated /\ ~manager.closed) =>
    /\ manager.created <= 1
    /\ \A c, d \in 1..2 :
         (manager.calls[c].pc = "done" /\ manager.calls[d].pc = "done") =>
           manager.calls[c].returned = manager.calls[d].returned

\* C34: once a window creation has failed, the fallback session
\* 'active-fallback' is the manager's session and stays it; it is never
\* written to the session file; and every getTerminal call that begins after
\* the failure returns the fallback session and does not get to create a
\* window.
C34_FallbackIsSticky ==
  /\ manager.file \notin ActiveIds
  /\ (Dedicated /\ manager.fellBack) =>
       /\ manager.terminalSession = "active-fallback"
       /\ \A c \in 1..2 :
            manager.calls[c].afterFallback =>
              /\ manager.calls[c].pc # "create"
              /\ manager.calls[c].made = "none"
              /\ manager.calls[c].pc = "done"
                   => manager.calls[c].returned = "active-fallback"

\* C36: with createDedicatedTerminal false every getTerminal call returns the
\* session 'active' at once: no call ever waits for a window-existence check
\* or a creation, none has an answer of such a check or a window made, and no
\* step changes the manager's stored session, the session file or the number
\* of windows created, whether or not a persisted session was loaded at
\* construction.
C36_ActiveWhenNotDedicated ==
  /\ [](~Dedicated =>
          \A c \in 1..2 :
            /\ manager.calls[c].pc \in { "off", "done" }
            /\ manager.calls[c].answer = "none"
            /\ manager.calls[c].made = "none"
            /\ manager.calls[c].pc = "done" => manager.calls[c].returned = "active")
  /\ [][~Dedicated => /\ manager'.terminalSession = manager.terminalSession
                      /\ manager'.file = manager.file
                      /\ manager'.created = manager.created
                      /\ manager'.windows \subseteq manager.windows]_vars

\* Dedicated terminals are off and the session w0 was loaded at construction:
\* both calls have returned 'active', the session and the file still hold w0,
\* and the operation on the session addressed the active terminal.
C36_Witness ==
  /\ ~Dedicated
  /\ manager.terminalSession = "w0"
  /\ manager.file = "w0"
  /\ manager.created = 0
  /\ \A c \in 1..2 : manager.calls[c].pc = "done" /\ manager.calls[c].returned = "active"
  /\ manager.lastUse.target = "current session of current window"


(***************************************************************************)
(* Properties of the AppleScript escaping, checked under SpecServer.       *)
(***************************************************************************)
\* An AppleScript string literal read from just after its opening quote at
\* i - 1: the characters it denotes and the index after its closing quote.
RECURSIVE readLiteral(_, _)
readLiteral(e, i) ==
  IF i > Len(e) THEN [ ok |-> FALSE, text |-> <<>>, next |-> i ]
  ELSE IF e[i] = "\"" THEN [ ok |-> TRUE, text |-> <<>>, next |-> i + 1 ]
  ELSE IF e[i] = "\\"
       THEN IF i + 1 > Len(e) THEN [ ok |-> FALSE, text |-> <<>>, next |-> i ]
            ELSE LET rest == readLiteral(e, i + 2)
                 IN  [ rest EXCEPT !.text = << IF e[i + 1] = "t" THEN "\t" ELSE e[i + 1] >> \o @ ]
       ELSE LET rest == readLiteral(e, i + 1)
            IN  [ rest EXCEPT !.text = << e[i] >> \o @ ]

\* The strings an expression of literals joined by ' & return & ' concatenates,
\* read from index i; ok is FALSE when e is not such an expression.
RECURSIVE readSegments(_, _)
readSegments(e, i) ==
  IF i > Len(e) \/ e[i] # "\"" THEN [ ok |-> FALSE, segments |-> <<>> ]
  ELSE LET literal == readLiteral(e, i + 1)
       IN  IF ~literal.ok THEN [ ok |-> FALSE, segments |-> <<>> ]
           ELSE IF literal.next > Len(e) THEN [ ok |-> TRUE, segments |-> << literal.text >> ]
           ELSE IF ~StartsWithAt(e, literal.next, <<" ","&"," ","r","e","t","u","r","n"," ","&"," ">>)
                THEN [ ok |-> FALSE, segments |-> <<>> ]
                ELSE LET rest == readSegments(e, literal.next + 12)
                     IN  [ rest EXCEPT !.segments = << literal.text >> \o @ ]

\* The number of line feeds in s.
LineFeeds(s) == Cardinality({ i \in 1..Len(s) : s[i] = "\n" })

\* C27: for a command with k >= 1 line feeds the operand of write text is the
\* parenthesised expression of exactly k + 1 string literals joined by
\* ' & return & ', the i-th denoting the i-th line of the command (no
\* character of a line ends its literal early); for a command without a line
\* feed it is the plain quoted form.
C27_OneSegmentPerLine ==
  applied = "escapeForAppleScript" =>
    LET command == input.command
        k == LineFeeds(command)
        read == readSegments(SubSeq(result, 2, Len(result) - 1), 1)
    IN  IF k > 0
        THEN /\ Head(result) = "(" /\ result[Len(result)] = ")"
             /\ read.ok
             /\ Len(read.segments) = k + 1
             /\ read.segments = splitLines(command)
        ELSE result = <<"\"">> \o escapeForAppleScript(command) \o <<"\"">>

\* A two-line command with a double quote on the first line and a backslash
\* on the second.
C27_Witness ==
  /\ applied = "escapeForAppleScript"
  /\ input.command = <<"\"","\n","\\">>
  /\ result = <<"(","\"","\\","\"","\""," ","&"," ","r","e","t","u","r","n"," ","&"," ","\"","\\",
      "\\","\"",")">>


(***************************************************************************)
(* Properties of SendControlCharacter.send, checked under SpecServer.      *)
(***************************************************************************)
\* s is t written in some mix of upper and lower case.
SpelledAs(s, t) ==
  /\ Len(s) = Len(t)
  /\ \A i \in 1..Len(t) : s[i] \in { t[i], toLowerChar(t[i]) }

\* The osascript commands send ran all carry the control code.
SentOnly(code) ==
  /\ result.scripts # <<>>
  /\ \A i \in 1..Len(result.scripts) : result.scripts[i].controlCode = code
  /\ result.message # "Invalid control character letter"

\* C28: a single letter a-z or A-Z sends the position of the letter in the
\* alphabet (its upper-case character code minus 64, in 1..26); ']' sends 29;
\* ESC and ESCAPE in any case send 27; every other input throws 'Invalid
\* control character letter' and no AppleScript is executed.
C28_ControlCodes ==
  applied = "send" =>
    LET letter == input.letter
    IN  IF Len(letter) = 1 /\ \E k \in 1..26 : letter[1] \in { UpperLetters[k], LowerLetters[k] }
        THEN SentOnly(CHOOSE k \in 1..26 : letter[1] \in { UpperLetters[k], LowerLetters[k] })
        ELSE IF letter = <<"]">> THEN SentOnly(29)
        ELSE IF SpelledAs(letter, <<"E","S","C">>) \/ SpelledAs(letter, <<"E","S","C","A","P","E">>) THEN SentOnly(27)
        ELSE /\ result.kind = "throw"
             /\ result.message = "Invalid control character letter"
             /\ result.scripts = <<>>



(***************************************************************************)
(* The accumulator of isWaitingForUserInput, checked under SpecExec.       *)
(***************************************************************************)
\* The number of most recent polls in a row that observed total CPU under 1%.
TrailingLows(h) ==
  CHOOSE k \in 0..Len(h) :
    /\ \A i \in (Len(h) - k + 1)..Len(h) : h[i] = "low"
    /\ k = Len(h) \/ h[Len(h) - k] # "low"

\* The detector's call is in its loop: about to poll, or asleep between polls.
Polling == pc \in { "poll", "sleep" }

\* C31: while the detector sleeps between polls the accumulator is 0, 350 or
\* 700; while it is in its loop the accumulator is a multiple of the 350 ms
\* cadence and equals 350 times the number of most recent polls in a row with
\* CPU under 1%; and no step of a polling detector other than its own poll
\* (the step that adds an observation) changes the accumulator.
C31_AccumulatorInvariant ==
  /\ [](pc = "sleep" => belowThresholdTime \in { 0, 350, 700 })
  /\ [](Polling => /\ belowThresholdTime % CadenceMs = 0
                   /\ belowThresholdTime = CadenceMs * TrailingLows(history))
  /\ [][(Polling /\ belowThresholdTime' # belowThresholdTime)
          => /\ pc = "poll"
             /\ Len(history') = Len(history) + 1
             /\ SubSeq(history', 1, Len(history)) = history]_vars

\* Inside executeCommand the detector sleeps after a busy poll followed by two
\* idle ones, with 700 ms accumulated.
C31_Witness ==
  /\ execPc = "isWaitingForUserInput"
  /\ pc = "sleep"
  /\ history = << "low", "high", "low", "low" >>
  /\ belowThresholdTime = 700



(***************************************************************************)
(* What getActiveProcess returns, checked under SpecTracker.               *)
(***************************************************************************)
\* tok is the first whitespace-delimited token of command.
IsFirstTokenOf(tok, command) ==
  /\ Len(tok) <= Len(command)
  /\ tok = SubSeq(command, 1, Len(tok))
  /\ \A i \in 1..Len(tok) : tok[i] \notin Whitespace
  /\ Len(tok) = Len(command) \/ command[Len(tok) + 1] \in Whitespace

\* name is the last component of the path p (p not ending in a slash).
IsLastComponentOf(name, p) ==
  /\ Len(name) <= Len(p)
  /\ name = SubSeq(p, Len(p) - Len(name) + 1, Len(p))
  /\ \A i \in 1..Len(name) : name[i] # "/"
  /\ Len(name) = Len(p) \/ p[Len(p) - Len(name)] = "/"

\* The rows of the snapshot in the group the foreground-group query printed.
ForegroundRows == { i \in 1..Len(processes) : Prints(fgQuery, processes[i].pgid) }

\* C32: an ActiveProcess returned by getActiveProcess has the pid of a record
\* of the snapshot in the resolved foreground group, that group's id as its
\* pgid, and as its name the path-basename of the first whitespace-delimited
\* token of its command; no record outside the foreground group is returned,
\* whatever its score.
C32_ActiveIsInForegroundGroup ==
  Resolved =>
    /\ \E i \in ForegroundRows :
         /\ outcome.pid = processes[i].pid
         /\ outcome.pgid = processes[i].pgid
         /\ outcome.command = processes[i].command
    /\ Prints(fgQuery, outcome.pgid)
    /\ \E tok \in { SubSeq(outcome.command, 1, k) : k \in 0..Len(outcome.command) } :
         /\ IsFirstTokenOf(tok, outcome.command)
         /\ IsLastComponentOf(outcome.name, tok)
    /\ \A i \in 1..Len(processes) :
         i \notin ForegroundRows => outcome.pid # processes[i].pid

\* The foreground group is that of the idle shell /bin/bash, which is returned
\* under the name bash although a busy job of another group scores higher.
C32_Witness ==
  /\ Resolved
  /\ Prints(fgQuery, <<"1">>)
  /\ outcome.name = <<"b","a","s","h">>
  /\ outcome.command = <<"/","b","i","n","/","b","a","s","h">>
  /\ \E i \in 1..Len(processes) :
       /\ i \notin ForegroundRows
       /\ calculateProcessScore(processes[i])
            > calculateProcessScore(processes[outcome.pid])



(***************************************************************************)
(* Failures of executeCommand, checked under SpecExec.                     *)
(***************************************************************************)
\* executeCommand has rejected with a message that starts with the prefix of
\* its catch clause.
RejectedAsFailedToExecute ==
  /\ execPc = "failed"
  /\ result.kind = "throw"
  /\ Head(result.message) = "Failed to execute command: "

\* A step in which the await of executeCommand fails: the call rejects, nothing
\* is added to what it has done and the idle detector is not called.
RejectingStep ==
  /\ RejectedAsFailedToExecute'
  /\ events' = events
  /\ pc' = pc

\* A step in which the await succeeds: done is recorded and the call is at next.
AdvancingStep(done, next) ==
  /\ execPc' = next
  /\ events' = Append(events, done)
  /\ result' = result

\* C33: a failure of the write, of the 'is processing' check or of the tty
\* path retrieval rejects executeCommand with a message that starts with
\* 'Failed to execute command: ', and nothing runs after it: no later step,
\* no read of the buffer.  The only ways out of the 'is processing' wait are a
\* report of false and a failure: there is no cap on its iterations, so the
\* call has not returned unless iTerm reported that it is not processing.
C33_FailuresRejectAndSkip ==
  /\ [](execPc = "failed" => RejectedAsFailedToExecute)
  /\ []((execPc = "failed" /\ Len(events) < 3)
          => \A i \in 1..Len(events) : events[i] # "retrieveBuffer")
  /\ [](execPc = "done" => \E i \in 1..Len(events) : events[i] = "notProcessing")
  /\ [][execPc # "failed"]_vars
  /\ [][execPc = "writeText"
          => AdvancingStep("written", "isProcessing") \/ RejectingStep]_vars
  /\ [][execPc = "isProcessing"
          => AdvancingStep("notProcessing", "retrieveTtyPath") \/ RejectingStep]_vars
  /\ [][execPc = "retrieveTtyPath"
          => AdvancingStep("ttyPath", "isWaitingForUserInput") \/ RejectingStep]_vars

\* The 'is processing' check failed after the command was written: the call
\* has rejected with the wrapped message, having done nothing else.
C33_Witness ==
  /\ execPc = "failed"
  /\ events = << "written" >>
  /\ pc = "off"
  /\ result = [ kind |-> "throw",
                message |-> << "Failed to execute command: ",
                               "Failed to check processing status: ", ExecError >> ]



(***************************************************************************)
(* Properties of the session file, checked under SpecSession.              *)
(***************************************************************************)
\* The drawn file contents that are not JSON texts.
NotJsonTexts ==
  { <<"{","\"","w","i","n","d","o","w","I","d","\"",":","\"","1","2","\"",",","\"","c",
      "r","e","a","t","e","d","A","t","\"",":","5">>,
    <<"{","\"","w","i","n","d","o","w","I","d","\"",":","\"","1","2","\"",",","\"","c",
      "r","e","a","t","e","d","A","t","\"",":","5","}","}">>,
    <<"{","w","i","n","d","o","w","I","d",":","\"","1","2","\"",",","c","r","e","a","t",
      "e","d","A","t",":","5","}">>,
    <<"1","2","3","4","5"," ","x">>,
    <<"w","1">> }

\* The drawn JSON texts that give no string as windowId or no number as
\* createdAt.
NotSessionTexts ==
  { <<"{","\"","w","i","n","d","o","w","I","d","\"",":","1","2",",","\"","c","r","e",
      "a","t","e","d","A","t","\"",":","5","}">>,
    <<"{","\"","w","i","n","d","o","w","I","d","\"",":","\"","1","2","\"",",","\"","c",
      "r","e","a","t","e","d","A","t","\"",":","\"","5","\"","}">>,
    <<"{","\"","w","i","n","d","o","w","I","d","\"",":","\"","1","2","\"",",","\"","c",
      "r","e","a","t","e","d","A","t","\"",":","n","u","l","l","}">>,
    <<"{","\"","w","i","n","d","o","w","I","d","\"",":","{","}",",","\"","c","r","e",
      "a","t","e","d","A","t","\"",":","5","}">>,
    <<"{","\"","w","i","n","d","o","w","I","d","\"",":","\"","1","2","\"","}">>,
    <<"{","\"","c","r","e","a","t","e","d","A","t","\"",":","5","}">>,
    <<"{","}">>,
    <<"n","u","l","l">>,
    <<"5">>,
    <<"\"","1","2","\"">>,
    <<"[","]">> }

\* The drawn file contents without any text.
BlankTexts == { <<>>, <<" ","\n">> }

\* The drawn JSON texts of sessions, with the window id and the creation time
\* each gives.
SessionTexts ==
  { << <<"{","\"","w","i","n","d","o","w","I","d","\"",":","\"","1","2","\"",",","\"","c",
      "r","e","a","t","e","d","A","t","\"",":","5","}">>, <<"1","2">>, 5 >>,
    << <<" ","{","\"","w","i","n","d","o","w","I","d","\"",":"," ","\"","1","2","\"",",",
      " ","\"","c","r","e","a","t","e","d","A","t","\"",":"," ","5","}","\n">>, <<"1","2">>, 5 >>,
    << <<"{","\"","c","r","e","a","t","e","d","A","t","\"",":","5",",","\"","e","x","t",
      "r","a","\"",":","t","r","u","e",",","\"","w","i","n","d","o","w","I","d","\"",
      ":","\"","a","\\","\"","b","\"","}">>, <<"a","\"","b">>, 5 >>,
    << <<"{","\"","w","i","n","d","o","w","I","d","\"",":","\"","a","c","t","i","v","e",
      "\"",",","\"","c","r","e","a","t","e","d","A","t","\"",":","0","}">>, <<"a","c","t","i","v","e">>, 0 >> }

\* The new manager has a session with this window id and creation time.
Loaded(windowId, createdAt) ==
  /\ result.terminalSession.present
  /\ member(result.terminalSession.value, <<"w","i","n","d","o","w","I","d">>) = JsonString(windowId)
  /\ member(result.terminalSession.value, <<"c","r","e","a","t","e","d","A","t">>) = JsonNumber(createdAt)

\* The session with a dedicated window id that the old manager wrote is the
\* session of the new manager, window id and creation time unchanged.
RoundTrip ==
  (/\ applied = "persistTerminalSession"
   /\ ~input.writeFails
   /\ member(input.terminalSession.value, <<"w","i","n","d","o","w","I","d">>).str
        \notin { <<"a","c","t","i","v","e">>, <<"a","c","t","i","v","e","-","f","a","l","l","b","a","c","k">> })
    => /\ Loaded(member(input.terminalSession.value, <<"w","i","n","d","o","w","I","d">>).str,
                 member(input.terminalSession.value, <<"c","r","e","a","t","e","d","A","t">>).num)
       /\ result.file = result.written
       /\ result.written # input.file

\* A missing file, or one without text, leaves the new manager without a
\* session and is left as it is; a session text is loaded and left as it is.
MissingBlankOrSession ==
  applied = "loadPersistedTerminal" =>
    /\ FileContents = NotJsonTexts \cup NotSessionTexts \cup BlankTexts
                        \cup { t[1] : t \in SessionTexts }
    /\ (~input.file.exists \/ (input.file.readable /\ input.file.content \in BlankTexts))
         => /\ result.terminalSession = Absent
            /\ result.file = input.file
    /\ \A t \in SessionTexts :
         (input.file.readable /\ input.file.content = t[1])
           => Loaded(t[2], t[3]) /\ result.file = input.file

\* The file of the new manager holds a text that is not JSON, or not a session.
Corrupted ==
  /\ applied = "loadPersistedTerminal"
  /\ input.file.readable
  /\ input.file.content \in NotJsonTexts \cup NotSessionTexts

\* C35 as stated: a session with a dedicated window id written by
\* persistTerminalSession is loaded unchanged by a new TerminalManager; a file
\* that is not valid JSON, or whose windowId is not a string or createdAt not
\* a number, leaves the manager without a session and is deleted; a missing or
\* empty file leaves the manager without a session and is left alone.
C35_RoundTripOrDeleted ==
  /\ RoundTrip
  /\ MissingBlankOrSession
  /\ Corrupted => /\ result.terminalSession = Absent
                  /\ result.file = NoFile

\* C35 as the code has it: as above, but a corrupted file is deleted only if
\* the deletion succeeds; when unlinkSync throws, that is logged and the file
\* stays as it was.
C35_RoundTripOrDeletedIfUnlinkSucceeds ==
  /\ RoundTrip
  /\ MissingBlankOrSession
  /\ Corrupted => /\ result.terminalSession = Absent
                  /\ result.file = IF input.unlinkFails THEN input.file ELSE NoFile

\* A session whose window id holds a double quote and a backslash was written
\* over the file of an older session, and the new manager has it.
C35_Witness ==
  /\ applied = "persistTerminalSession"
  /\ input.file # NoFile
  /\ result.written = FileOf(<<"{","\"","w","i","n","d","o","w","I","d","\"",":","\"","7","\\","\"","\\","\\",
      "\"",",","\"","c","r","e","a","t","e","d","A","t","\"",":","1","7","0","0","}">>)
  /\ Loaded(<<"7","\"","\\">>, 1700)



(***************************************************************************)
(* The fallback of the managed read and send, checked under SpecServer.    *)
(***************************************************************************)
ActiveTerminal == "current session of current window"

\* The targets of the osascript runs the operation made, in order.
Targets == [ i \in 1..Len(result.scripts) |-> result.scripts[i].target ]

\* A read or a send of a valid letter has been applied.
ReadOrSent ==
  \/ applied = "retrieveBuffer"
  \/ applied = "send" /\ controlCode(input.letter).valid

\* The operation ended as its attempt on the active terminal did: for a read
\* the trimmed contents or the osascript error, for a send nothing or the
\* wrapped osascript error.
EndedAsActiveAttempt ==
  IF applied = "retrieveBuffer"
  THEN /\ result.kind = (IF input.activeFails THEN "throw" ELSE "return")
       /\ result.value = (IF input.activeFails THEN <<>> ELSE trim(input.activeStdout))
       /\ result.message = (IF input.activeFails THEN << ExecError >> ELSE <<>>)
  ELSE /\ result.kind = (IF input.activeFails THEN "throw" ELSE "return")
       /\ result.message
            = (IF input.activeFails THEN "Failed to send control character" ELSE "")

\* A failed managed operation is followed by one attempt on the active
\* terminal, which decides the outcome; without a manager or session the
\* attempt on the active terminal is the only one.
FallsBackOnce ==
  /\ (ReadOrSent /\ input.managed /\ input.managedFails)
       => /\ Targets = << targetOf(input.session), ActiveTerminal >>
          /\ EndedAsActiveAttempt
  /\ (ReadOrSent /\ ~input.managed)
       => /\ Targets = << ActiveTerminal >>
          /\ EndedAsActiveAttempt
  /\ (applied = "send" /\ ~controlCode(input.letter).valid)
       => /\ Targets = <<>>
          /\ result.kind = "throw"

====
